---------------------------- MODULE Spec2Model ----------------------------
(***************************************************************************)
(* Order lifecycle, delivery assignment and order creation of the          *)
(* "mascotas" backend (FastAPI + SQLAlchemy over MySQL).                   *)
(*                                                                         *)
(* The state is the content of the tables the handlers read and write,     *)
(* a logical clock standing for datetime.now(), and the HTTP exchange of   *)
(* the last request.  Each handler is one action: it runs from its first   *)
(* query to db.commit() (or to the exception that ends it) in one step.    *)
(* A handler that raises before db.commit() persists nothing: get_db       *)
(* closes the session, which rolls the transaction back.                   *)
(*                                                                         *)
(* Names the routers use without importing them (Pedido, ControlEntrega,   *)
(* Cliente, datetime, ...) are read as the classes of models.py and the    *)
(* standard library.                                                       *)
(***************************************************************************)
EXTENDS Integers, FiniteSets, Sequences, TLC

\* ------------------------------------------------------------------ bounds
MaxPedidos == 1
MaxReloj == 4

\* --------------------------------------------------------------- constants
\* Python's None, and SQL NULL.
None == 0

\* keygen.generate_uint64_key(): a key not yet used in the table.  The real
\* call draws from 1..2^64-1; the model draws from the unused keys of a small
\* key space.
Claves == 1..MaxPedidos
generate_uint64_key(usadas) == Claves \ usadas

\* The key of a row no request ever names (control_entrega,
\* pedido_especializado): keys are opaque and never run out, so the model
\* takes the least unused one.
ClaveDeFila(usadas) ==
    LET libres == (1..(Cardinality(usadas) + 1)) \ usadas
    IN  {k \in libres : \A j \in libres : k <= j}

\* Identifiers a request may name, and the rows of the reference tables, which
\* routers outside the order core create.
PedidoIds == Claves
RepartidorIds == {1, 2, 3}
repartidor == {1, 2}

\* ------------------------------------------------------------------- state
VARIABLES
    pedido,                  \* table pedido: id -> row (fecha left out)
    detalle_pedido,          \* table detalle_pedido: rows in insertion order
    pedido_especializado,    \* table pedido_especializado: set of rows
    control_entrega,         \* table control_entrega: set of rows
    registro_mascota,        \* table registro_mascota: id -> row
    receta_medica,           \* table receta_medica: rows in insertion order
    alergia_mascota,         \* table alergia_mascota: rows in insertion order
    descripcion_alergias,    \* table descripcion_alergias: rows in insertion order
    condicion_salud,         \* table condicion_salud: rows in insertion order
    preferencia_alimentaria, \* table preferencia_alimentaria: rows in insertion order
    reloj,                   \* datetime.now(), as control_entrega records it
    respuesta,               \* request and response of the last call
    sesiones                 \* the open sessions of requests that overlap

\* The tables only the creation handlers write.
tablasPedido == <<detalle_pedido, pedido_especializado>>
tablasMascota ==
    <<registro_mascota, receta_medica, alergia_mascota, descripcion_alergias,
      condicion_salud, preferencia_alimentaria>>

vars ==
    <<pedido, control_entrega, tablasPedido, tablasMascota, reloj, respuesta,
      sesiones>>

\* The seven states of the module docstring of routers/admin/pedidos.py.
Estados ==
    {"pendiente", "en_preparacion", "asignado", "en_camino",
     "entregado", "devuelto", "cancelado"}

\* Values a caller may send as nuevo_estado (a free query string).
EstadosPedidos == Estados \cup {"desconocido", ""}

\* The exchange of one request: the handler, the parameters it was given, the
\* HTTP status code, the message, the estado_anterior a status change reports,
\* the summary counts a creation reports and the values formatted into the
\* message.
Resp(op, codigo, detalle, pedido_id) ==
    [op |-> op, codigo |-> codigo, detalle |-> detalle, pedido_id |-> pedido_id,
     nuevo_estado |-> "", estado_anterior |-> "", repartidor_id |-> None,
     resumen |-> <<0, 0, 0>>, interpolados |-> << >>]

\* A request that ends before db.commit(): get_db closes the session and the
\* store keeps what it had.
SinEscritura ==
    UNCHANGED <<pedido, control_entrega, tablasPedido, tablasMascota, reloj>>

\* ------------------------------------------------------------ state machine
\* Faulty tables: pendiente may skip to en_camino; cancelado may be reopened;
\* entregado may be sent back.
transiciones_validas_SaltoEnCamino ==
    [e \in Estados |->
        CASE e = "pendiente"      -> {"en_preparacion", "en_camino", "cancelado"}
          [] e = "en_preparacion" -> {"asignado", "cancelado"}
          [] e = "asignado"       -> {"en_camino", "cancelado"}
          [] e = "en_camino"      -> {"entregado", "devuelto"}
          [] e = "devuelto"       -> {"asignado", "cancelado"}
          [] OTHER                -> {}]

transiciones_validas_ReabreCancelado ==
    [e \in Estados |->
        CASE e = "pendiente"      -> {"en_preparacion", "cancelado"}
          [] e = "en_preparacion" -> {"asignado", "cancelado"}
          [] e = "asignado"       -> {"en_camino", "cancelado"}
          [] e = "en_camino"      -> {"entregado", "devuelto"}
          [] e = "devuelto"       -> {"asignado", "cancelado"}
          [] e = "entregado"      -> {}
          [] e = "cancelado"      -> {"pendiente"}]

transiciones_validas_ReabreEntregado ==
    [e \in Estados |->
        CASE e = "pendiente"      -> {"en_preparacion", "cancelado"}
          [] e = "en_preparacion" -> {"asignado", "cancelado"}
          [] e = "asignado"       -> {"en_camino", "cancelado"}
          [] e = "en_camino"      -> {"entregado", "devuelto"}
          [] e = "devuelto"       -> {"asignado", "cancelado"}
          [] e = "entregado"      -> {"devuelto"}
          [] e = "cancelado"      -> {}]

transiciones_validas ==
    [e \in Estados |->
        CASE e = "pendiente"      -> {"en_preparacion", "cancelado"}
          [] e = "en_preparacion" -> {"asignado", "cancelado"}
          [] e = "asignado"       -> {"en_camino", "cancelado"}
          [] e = "en_camino"      -> {"entregado", "devuelto"}
          [] e = "devuelto"       -> {"asignado", "cancelado"}
          [] e = "entregado"      -> {}
          [] e = "cancelado"      -> {}]

\* Faulty test: only a final state refuses, whatever is asked for.
TransicionRechazada_SoloFinales(estado_actual, nuevo_estado) ==
    transiciones_validas[estado_actual] = {}

\* The test of line 198: nuevo_estado is refused from estado_actual.
TransicionRechazada(estado_actual, nuevo_estado) ==
    nuevo_estado \notin transiciones_validas[estado_actual]

\* Faulty message: only the state asked for is named.
DetalleDeRechazo_SoloDestino(estado_actual, nuevo_estado) == <<nuevo_estado>>

\* The values the f-string of line 201 formats into the detail of the 400:
\* "No se puede cambiar de '{estado_actual}' a '{nuevo_estado}'."
DetalleDeRechazo(estado_actual, nuevo_estado) == <<estado_actual, nuevo_estado>>

\* Faulty write: a status change resets the order's total.
EscribirEstado_ReiniciaTotal(pedidos, pedido_id, nuevo_estado) ==
    [pedidos EXCEPT ![pedido_id].estado = nuevo_estado, ![pedido_id].total = 0]

\* Faulty write: cancelling removes the order's row.
EscribirEstado_BorraCancelado(pedidos, pedido_id, nuevo_estado) ==
    IF nuevo_estado = "cancelado"
    THEN [p \in DOMAIN pedidos \ {pedido_id} |-> pedidos[p]]
    ELSE [pedidos EXCEPT ![pedido_id].estado = nuevo_estado]

\* The write of line 203, pedido.estado = nuevo_estado, on the rows of pedido.
EscribirEstado(pedidos, pedido_id, nuevo_estado) ==
    [pedidos EXCEPT ![pedido_id].estado = nuevo_estado]

\* PUT /admin/pedidos/{pedido_id}/estado
actualizar_estado_pedido(pedido_id, nuevo_estado) ==
    LET r(codigo, detalle) ==
            [Resp("actualizar_estado_pedido", codigo, detalle, pedido_id)
                EXCEPT !.nuevo_estado = nuevo_estado]
    IN
    IF pedido_id \notin DOMAIN pedido
    THEN /\ respuesta' = r(404, "Pedido no encontrado.")
         /\ SinEscritura
    ELSE LET estado_actual == pedido[pedido_id].estado
             ra(codigo, detalle) ==
                 [r(codigo, detalle) EXCEPT !.estado_anterior = estado_actual]
         IN
         IF estado_actual \notin DOMAIN transiciones_validas
         THEN /\ respuesta' = [ra(400, "Estado actual desconocido")
                                  EXCEPT !.interpolados = <<estado_actual>>]
              /\ SinEscritura
         ELSE IF TransicionRechazada(estado_actual, nuevo_estado)
         THEN /\ respuesta' =
                    [ra(400, "No se puede cambiar")
                        EXCEPT !.interpolados =
                                   DetalleDeRechazo(estado_actual, nuevo_estado)]
              /\ SinEscritura
         ELSE /\ pedido' = EscribirEstado(pedido, pedido_id, nuevo_estado)
              /\ respuesta' =
                    [ra(200, "Estado del pedido actualizado correctamente")
                        EXCEPT !.interpolados = <<estado_actual, nuevo_estado>>]
              /\ UNCHANGED <<control_entrega, tablasPedido, tablasMascota, reloj>>

\* ------------------------------------------------------ delivery assignment
\* Faulty lookup: the filter on pedido_id is missing.
ControlesDe_SinFiltro(pedido_id) == control_entrega

\* db.query(ControlEntrega).filter(ControlEntrega.pedido_id == pedido_id)
ControlesDe(pedido_id) == {c \in control_entrega : c.pedido_id = pedido_id}

\* Faulty schema: control_entrega without the unique index.
IndicePedidoIdUnico_SinIndice(filas) == TRUE

\* Index('pedido_id', 'pedido_id', unique=True) of control_entrega, which the
\* store checks when it inserts a row.
IndicePedidoIdUnico(filas) ==
    \A c1, c2 \in filas : c1.pedido_id = c2.pedido_id => c1 = c2

\* Faulty list: an order on its way is set back to asignado.
EstadosQueAsignarConserva_SoloAsignado == {"asignado"}

\* Faulty list: an order that is pendiente stays pendiente when assigned.
EstadosQueAsignarConserva_TambienPendiente ==
    {"asignado", "en_camino", "entregado", "pendiente"}

\* The statuses in which asignar leaves pedido.estado as it is (line 250).
EstadosQueAsignarConserva == {"asignado", "en_camino", "entregado"}

\* Faulty write: pedido.estado = "asignado" without the test of line 250.
EstadoTrasAsignar_Siempre(estado) == "asignado"

\* pedido.estado after lines 250-251.
EstadoTrasAsignar(estado) ==
    IF estado \notin EstadosQueAsignarConserva THEN "asignado" ELSE estado

\* Faulty branch: the lookup of line 234 is skipped and a row is always added.
ControlEncontrado_Nunca(pedido_id) == FALSE

\* The branch of line 235: a delivery-control row of the order was found.
ControlEncontrado(pedido_id) == ControlesDe(pedido_id) # {}

\* confirmacion_entrega as asignar writes it (lines 238 and 245).
ConfirmacionAlAsignar == 0

\* Faulty test: the courier is not looked up.
RepartidorEncontrado_Siempre(repartidor_id) == TRUE

\* The lookup of lines 231-233: a row of repartidor has this id.
RepartidorEncontrado(repartidor_id) == repartidor_id \in repartidor

\* PUT /admin/pedidos/{pedido_id}/asignar/{repartidor_id}
asignar_pedido_a_repartidor(pedido_id, repartidor_id) ==
    LET r(codigo, detalle) ==
            [Resp("asignar_pedido_a_repartidor", codigo, detalle, pedido_id)
                EXCEPT !.repartidor_id = repartidor_id]
    IN
    IF pedido_id \notin DOMAIN pedido
    THEN /\ respuesta' = r(404, "Pedido no encontrado.")
         /\ SinEscritura
    ELSE IF ~RepartidorEncontrado(repartidor_id)
    THEN /\ respuesta' = r(404, "Repartidor no encontrado.")
         /\ SinEscritura
    ELSE
        /\ reloj < MaxReloj
        /\ reloj' = reloj + 1
        /\ UNCHANGED <<tablasPedido, tablasMascota>>
        /\ IF ControlEncontrado(pedido_id)
           THEN \E control \in ControlesDe(pedido_id) :
                  /\ control_entrega' =
                        (control_entrega \ {control}) \cup
                        {[control EXCEPT !.repartidor_id = repartidor_id,
                                         !.fecha_entrega = reloj',
                                         !.confirmacion_entrega = ConfirmacionAlAsignar]}
                  /\ pedido' = [pedido EXCEPT ![pedido_id].estado = EstadoTrasAsignar(@)]
                  /\ respuesta' = r(200, "Pedido reasignado a un nuevo repartidor.")
           ELSE \E id \in ClaveDeFila({c.id : c \in control_entrega}) :
                  LET control == [id |-> id, pedido_id |-> pedido_id,
                                  fecha_entrega |-> reloj',
                                  confirmacion_entrega |-> ConfirmacionAlAsignar,
                                  repartidor_id |-> repartidor_id]
                  IN  IF IndicePedidoIdUnico(control_entrega \cup {control})
                      THEN /\ control_entrega' = control_entrega \cup {control}
                           /\ pedido' = [pedido EXCEPT ![pedido_id].estado = EstadoTrasAsignar(@)]
                           /\ respuesta' = r(200, "Pedido asignado correctamente.")
                      ELSE /\ respuesta' = r(500, "IntegrityError")
                           /\ UNCHANGED <<pedido, control_entrega>>

\* Faulty test: an order that is entregado counts as confirmed.
YaEntregado_SoloEstado(estado, confirmacion_entrega) == estado = "entregado"

\* Faulty test: the delivery is confirmed again whatever was recorded.
YaEntregado_Nunca(estado, confirmacion_entrega) == FALSE

\* The test of repartidor.py line 174: the delivery is already confirmed.
YaEntregado(estado, confirmacion_entrega) ==
    estado = "entregado" /\ confirmacion_entrega = 1

\* PUT /repartidor/pedidos/{pedido_id}/entregado
marcar_pedido_completado(pedido_id) ==
    LET r(codigo, detalle) == Resp("marcar_pedido_completado", codigo, detalle, pedido_id)
    IN
    IF ControlesDe(pedido_id) = {}
    THEN /\ respuesta' = r(404, "El pedido no esta asignado o no existe.")
         /\ SinEscritura
    ELSE IF pedido_id \notin DOMAIN pedido
    THEN /\ respuesta' = r(404, "Pedido no encontrado en la base de datos.")
         /\ SinEscritura
    ELSE \E control \in ControlesDe(pedido_id) :
         IF YaEntregado(pedido[pedido_id].estado, control.confirmacion_entrega)
         THEN /\ respuesta' = r(200, "El pedido ya fue marcado como entregado anteriormente.")
              /\ SinEscritura
         ELSE /\ reloj < MaxReloj
              /\ reloj' = reloj + 1
              /\ pedido' = [pedido EXCEPT ![pedido_id].estado = "entregado"]
              /\ control_entrega' =
                    (control_entrega \ {control}) \cup
                    {[control EXCEPT !.confirmacion_entrega = 1,
                                     !.fecha_entrega = reloj']}
              /\ respuesta' = r(200, "El pedido ha sido marcado como entregado correctamente.")
              /\ UNCHANGED <<tablasPedido, tablasMascota>>

\* Faulty test: the customer's endpoint takes a delivered order as received.
YaRecibido_SoloEstado(estado, confirmacion_entrega) == estado = "entregado"

\* The test of cliente/pedido.py line 193: the reception is already confirmed.
YaRecibido(estado, confirmacion_entrega) ==
    estado = "entregado" /\ confirmacion_entrega = 1

\* POST /cliente/pedido/{pedido_id}/recibido
marcar_pedido_recibido(pedido_id) ==
    LET r(codigo, detalle) == Resp("marcar_pedido_recibido", codigo, detalle, pedido_id)
    IN
    IF pedido_id \notin DOMAIN pedido
    THEN /\ respuesta' = r(404, "Pedido no encontrado.")
         /\ SinEscritura
    ELSE IF ControlesDe(pedido_id) = {}
    THEN /\ respuesta' = r(404, "El pedido no tiene registro de entrega asignado.")
         /\ SinEscritura
    ELSE \E control \in ControlesDe(pedido_id) :
         IF YaRecibido(pedido[pedido_id].estado, control.confirmacion_entrega)
         THEN /\ respuesta' = r(200, "El pedido ya fue confirmado como recibido.")
              /\ SinEscritura
         ELSE /\ reloj < MaxReloj
              /\ reloj' = reloj + 1
              /\ pedido' = [pedido EXCEPT ![pedido_id].estado = "entregado"]
              /\ control_entrega' =
                    (control_entrega \ {control}) \cup
                    {[control EXCEPT !.confirmacion_entrega = 1,
                                     !.fecha_entrega = reloj']}
              /\ respuesta' = r(200, "El pedido ha sido confirmado como recibido.")
              /\ UNCHANGED <<tablasPedido, tablasMascota>>

\* Faulty lists: a delivered order, or a cancelled one, may be marked as
\* returned.
EstadosNoDevolvibles_SoloCancelado == {"cancelado"}

EstadosNoDevolvibles_SoloEntregado == {"entregado"}

\* The statuses marcar_pedido_devuelto refuses (line 206).
EstadosNoDevolvibles == {"entregado", "cancelado"}

\* PUT /repartidor/pedidos/{pedido_id}/devuelto
marcar_pedido_devuelto(pedido_id) ==
    LET r(codigo, detalle) == Resp("marcar_pedido_devuelto", codigo, detalle, pedido_id)
    IN
    IF ControlesDe(pedido_id) = {}
    THEN /\ respuesta' = r(404, "El pedido no esta asignado o no existe en el control de entrega.")
         /\ SinEscritura
    ELSE IF pedido_id \notin DOMAIN pedido
    THEN /\ respuesta' = r(404, "Pedido no encontrado en la base de datos.")
         /\ SinEscritura
    ELSE IF pedido[pedido_id].estado \in EstadosNoDevolvibles
    THEN /\ respuesta' = r(400, "No se puede marcar como devuelto.")
         /\ SinEscritura
    ELSE \E control \in ControlesDe(pedido_id) :
         /\ reloj < MaxReloj
         /\ reloj' = reloj + 1
         /\ pedido' = [pedido EXCEPT ![pedido_id].estado = "devuelto"]
         /\ control_entrega' =
               (control_entrega \ {control}) \cup
               {[control EXCEPT !.confirmacion_entrega = 0,
                                !.fecha_entrega = reloj']}
         /\ respuesta' = r(200, "El pedido ha sido marcado como devuelto correctamente.")
         /\ UNCHANGED <<tablasPedido, tablasMascota>>

\* ------------------------------------------------------------ normal order
\* Rows of cliente, direccion (id -> cliente_id) and plato_combinado
\* (id -> precio), which routers outside the order core create.
cliente == {1, 2}
direccion == (1 :> 1) @@ (2 :> 2)
plato_combinado == (1 :> 10)

\* Faulty close: what the session flushed is committed when it ends.
Cerrar_Confirma(confirmado, antes, despues) == despues

\* get_db's db.close() at the end of the request: the rows of a table are
\* those the handler left (despues) when it reached db.commit(), and those
\* of before the request (antes) when it raised first.
Cerrar(confirmado, antes, despues) == IF confirmado THEN despues ELSE antes

\* The classes models.py declares; a name the handler uses that is none of
\* them raises NameError where it is evaluated.
ClasesDeModels ==
    {"AlergiaEspecie", "Cliente", "PlatoCombinado", "Repartidor", "Direccion",
     "RegistroMascota", "AlergiaMascota", "CondicionSalud", "DescripcionAlergias",
     "Pedido", "PreferenciaAlimentaria", "ControlEntrega", "DetallePedido",
     "PedidoEspecializado", "RecetaMedica"}
NombreResuelto(nombre) == nombre \in ClasesDeModels

\* The attributes of class DetallePedido, and the keywords crear_pedido passes
\* to its constructor.  The declarative constructor raises TypeError for a
\* keyword that is no attribute of the class.
DetallePedidoAtributos ==
    {"id", "pedido_id", "cantidad", "subtotal", "plato_combinado_id",
     "pedido", "plato_combinado"}
DetallePedidoArgumentos == {"id", "pedido_id", "plato_id", "cantidad", "subtotal"}
ConstructorAcepta(argumentos, atributos) == argumentos \subseteq atributos

\* What building the line item of one entry of platos raises ("" when
\* nothing): the keywords are evaluated first, db.query(Plato) among them,
\* then .precio of the row found, then the constructor is called.
ErrorDeItem(item) ==
    IF ~NombreResuelto("Plato") THEN "NameError"
    ELSE IF item.plato_id \notin DOMAIN plato_combinado THEN "AttributeError"
    ELSE IF ~ConstructorAcepta(DetallePedidoArgumentos, DetallePedidoAtributos)
    THEN "TypeError"
    ELSE ""

\* POST /cliente/pedido/{cliente_id}; data = {direccion_id, platos, total},
\* total 0 standing for an absent total as well (both are falsy).  The order
\* and the line items are added to the session and committed once, after
\* the loop; an entry that raises ends the request before the commit.
crear_pedido(cliente_id, data) ==
    LET r(codigo, detalle) == Resp("crear_pedido", codigo, detalle, None)
        platos == data.platos
    IN
    IF cliente_id \notin cliente
    THEN /\ respuesta' = r(404, "Cliente no encontrado.")
         /\ SinEscritura
    ELSE IF data.direccion_id = None
    THEN /\ respuesta' = r(400, "Debe especificar una direccion de entrega.")
         /\ SinEscritura
    ELSE IF Len(platos) = 0
    THEN /\ respuesta' = r(400, "Debe incluir al menos un plato en el pedido.")
         /\ SinEscritura
    ELSE IF data.total <= 0
    THEN /\ respuesta' = r(400, "El total del pedido debe ser mayor que 0.")
         /\ SinEscritura
    ELSE IF ~(data.direccion_id \in DOMAIN direccion
              /\ direccion[data.direccion_id] = cliente_id)
    THEN /\ respuesta' = r(400, "La direccion no pertenece al cliente o no existe.")
         /\ SinEscritura
    ELSE \E pedido_id \in generate_uint64_key(DOMAIN pedido) :
         LET fallan == {i \in DOMAIN platos : ErrorDeItem(platos[i]) # ""}
             confirmado == fallan = {}
             primero == IF confirmado THEN Len(platos) + 1
                        ELSE CHOOSE i \in fallan : \A j \in fallan : i <= j
             agregados ==
                 [i \in 1..(primero - 1) |->
                     [pedido_id |-> pedido_id, plato_id |-> platos[i].plato_id,
                      cantidad |-> platos[i].cantidad,
                      subtotal |-> platos[i].cantidad
                                      * plato_combinado[platos[i].plato_id]]]
         IN
         /\ pedido' = Cerrar(confirmado, pedido, pedido @@
               (pedido_id :> [cliente_id |-> cliente_id,
                              direccion_id |-> data.direccion_id,
                              total |-> data.total,
                              estado |-> "pendiente", incluye_plato |-> TRUE]))
         /\ detalle_pedido' = Cerrar(confirmado, detalle_pedido,
                                     detalle_pedido \o agregados)
         /\ respuesta' =
               IF confirmado
               THEN [r(200, "Pedido creado exitosamente.") EXCEPT !.pedido_id = pedido_id]
               ELSE r(500, ErrorDeItem(platos[primero]))
         /\ UNCHANGED <<pedido_especializado, control_entrega, tablasMascota, reloj>>

\* -------------------------------------------------------- specialized order
\* A form field that carries JSON text is one of
\*   <<"None">>          the field was not sent,
\*   <<"vacio">>         the empty string,
\*   <<"malformado">>    text json.loads rejects,
\*   <<"json", v>>       text json.loads turns into the value v,
\* and a JSON value v is <<"int", n>>, <<"str", s>>, <<"null">>,
\* <<"obj", nombre, extra>> (an object with the keys "nombre" and "fecha" or
\* "descripcion", <<"null">> standing for a missing key as well) or
\* <<"list", <<v1, ..., vn>>>>.
alergia_especie == {1, 2}

\* Faulty parsers: text json.loads rejects is read as an empty list; a
\* field that was not sent is an error.
parse_json_list_Tolerante(value) ==
    IF value[1] \in {"None", "vacio", "malformado"}
    THEN [ok |-> TRUE, lista |-> << >>]
    ELSE IF value[2][1] = "list"
    THEN [ok |-> TRUE, lista |-> value[2][2]]
    ELSE [ok |-> TRUE, lista |-> <<value[2]>>]

parse_json_list_SinFallback(value) ==
    IF value[1] \in {"None", "vacio", "malformado"}
    THEN [ok |-> FALSE, lista |-> << >>]
    ELSE IF value[2][1] = "list"
    THEN [ok |-> TRUE, lista |-> value[2][2]]
    ELSE [ok |-> TRUE, lista |-> <<value[2]>>]

\* parse_json_list: [ok, lista].
parse_json_list(value) ==
    IF value[1] \in {"None", "vacio"}
    THEN [ok |-> TRUE, lista |-> << >>]
    ELSE IF value[1] = "malformado"
    THEN [ok |-> FALSE, lista |-> << >>]
    ELSE LET parsed == value[2] IN
         IF parsed[1] = "list"
         THEN [ok |-> TRUE, lista |-> parsed[2]]
         ELSE [ok |-> TRUE, lista |-> <<parsed>>]

\* Python's truth value of a JSON value, negated: `not v`.
Falsy(v) ==
    \/ v[1] = "null"
    \/ v[1] = "str" /\ v[2] = ""
    \/ v[1] = "int" /\ v[2] = 0
    \/ v[1] = "list" /\ Len(v[2]) = 0

\* int(alergia_id): [ok, n]; ValueError or TypeError when not ok.
DigitosDe == ("1" :> 1) @@ ("2" :> 2) @@ ("3" :> 3)
PyInt(v) ==
    IF v[1] = "int" THEN [ok |-> TRUE, n |-> v[2]]
    ELSE IF v[1] = "str" /\ v[2] \in DOMAIN DigitosDe
    THEN [ok |-> TRUE, n |-> DigitosDe[v[2]]]
    ELSE [ok |-> FALSE, n |-> 0]

\* str(v) of a value that is no object.
PyStr(v) ==
    CASE v[1] = "str"  -> v[2]
      [] v[1] = "int"  -> IF v[2] = 0 THEN "0" ELSE "n"
      [] v[1] = "null" -> "None"
      [] OTHER         -> "[...]"

\* nombre of one entry of condiciones_salud or preferencias_alimentarias
\* (lines 341-346 and 365-370), as a JSON value.
NombreDe(entrada) ==
    IF entrada[1] = "obj" THEN entrada[2] ELSE <<"str", PyStr(entrada)>>

\* The second key of an entry ("fecha" or "descripcion"), None when the entry
\* is no object.
ExtraDe(entrada) ==
    IF entrada[1] = "obj" THEN entrada[3] ELSE <<"null">>

\* datetime.fromisoformat accepts these texts.
FechasIso == {"2024-01-01"}

\* fecha_val of lines 349-356: the date given, or the time of creation.
FechaDe(fecha_txt) ==
    IF Falsy(fecha_txt) THEN <<"ahora">>
    ELSE IF fecha_txt[1] = "str" /\ fecha_txt[2] \in FechasIso
    THEN <<"fecha", fecha_txt[2]>>
    ELSE <<"ahora">>

\* A value the driver can bind to a text column.
Almacenable(v) == v[1] \in {"str", "int", "null"}

\* The entries of a list that are not skipped by `if not nombre: continue`.
ConNombre(lista) == SelectSeq(lista, LAMBDA entrada : ~Falsy(NombreDe(entrada)))

\* POST /cliente/pedido/especializado/{cliente_id}; e holds the form fields.
crear_pedido_especializado(cliente_id, e) ==
    LET r(codigo, detalle) == Resp("crear_pedido_especializado", codigo, detalle, None)
        alergias == parse_json_list(e.alergias_ids)
        condiciones == parse_json_list(e.condiciones_salud)
        preferencias == parse_json_list(e.preferencias_alimentarias)
        alergias_list == alergias.lista
        condiciones_list == condiciones.lista
        preferencias_list == preferencias.lista
        mascota_id == e.registro_mascota_id
    IN
    IF cliente_id \notin cliente
    THEN /\ respuesta' = r(404, "Cliente no encontrado.")
         /\ SinEscritura
    ELSE IF ~(mascota_id \in DOMAIN registro_mascota
              /\ registro_mascota[mascota_id].cliente_id = cliente_id)
    THEN /\ respuesta' = r(404, "Mascota no encontrada o no pertenece al cliente.")
         /\ SinEscritura
    ELSE IF e.frecuencia_cantidad = "" \/ e.objetivo_dieta = ""
    THEN /\ respuesta' = r(400, "Debe proporcionar 'frecuencia_cantidad' y 'objetivo_dieta'.")
         /\ SinEscritura
    ELSE IF ~(alergias.ok /\ condiciones.ok /\ preferencias.ok)
    THEN /\ respuesta' = r(400, "Formato JSON invalido en uno de los campos de lista.")
         /\ SinEscritura
    ELSE \E pedido_id \in generate_uint64_key(DOMAIN pedido) :
         \E pedido_esp_id \in ClaveDeFila({pe.id : pe \in pedido_especializado}) :
         LET \* the entries reached before int(alergia_id) raises, if it does
             sinEntero == {i \in DOMAIN alergias_list : ~PyInt(alergias_list[i]).ok}
             alergias_sumadas ==
                 IF sinEntero = {} THEN alergias_list
                 ELSE SubSeq(alergias_list, 1,
                             (CHOOSE i \in sinEntero : \A j \in sinEntero : i <= j) - 1)
             \* db.commit() fails on a foreign key or on a value it cannot bind
             falla_commit ==
                 \/ \E i \in DOMAIN alergias_list :
                       PyInt(alergias_list[i]).n \notin alergia_especie
                 \/ \E i \in DOMAIN ConNombre(condiciones_list) :
                       ~Almacenable(NombreDe(ConNombre(condiciones_list)[i]))
                 \/ \E i \in DOMAIN ConNombre(preferencias_list) :
                       \/ ~Almacenable(NombreDe(ConNombre(preferencias_list)[i]))
                       \/ ~Almacenable(ExtraDe(ConNombre(preferencias_list)[i]))
             confirmado == sinEntero = {} /\ ~falla_commit
             \* the loops after the allergies are reached only without ValueError
             sigue == sinEntero = {}
         IN
         /\ pedido' = Cerrar(confirmado, pedido, pedido @@
               (pedido_id :> [cliente_id |-> cliente_id, direccion_id |-> None,
                              total |-> 0,
                              estado |-> "pendiente", incluye_plato |-> FALSE]))
         /\ pedido_especializado' = Cerrar(confirmado, pedido_especializado,
               pedido_especializado \cup
               {[id |-> pedido_esp_id, pedido_id |-> pedido_id,
                 registro_mascota_id |-> mascota_id,
                 frecuencia_cantidad |-> e.frecuencia_cantidad,
                 objetivo_dieta |-> e.objetivo_dieta,
                 consulta_nutricionista |-> IF e.consulta_nutricionista THEN 1 ELSE 0,
                 estado_registro |-> "A",
                 archivo_adicional |-> e.archivo_adicional]})
         /\ receta_medica' = Cerrar(confirmado, receta_medica,
               IF e.receta_medica
               THEN Append(receta_medica,
                           [registro_mascota_id |-> mascota_id,
                            pedido_especializado_id |-> pedido_esp_id,
                            estado_registro |-> "A"])
               ELSE receta_medica)
         /\ alergia_mascota' = Cerrar(confirmado, alergia_mascota,
               alergia_mascota \o
               [i \in DOMAIN alergias_sumadas |->
                   [registro_mascota_id |-> mascota_id,
                    alergia_especie_id |-> PyInt(alergias_sumadas[i]).n,
                    severidad |-> "moderada", estado_registro |-> "A"]])
         /\ descripcion_alergias' = Cerrar(confirmado, descripcion_alergias,
               IF sigue /\ e.descripcion_alergias # ""
               THEN Append(descripcion_alergias,
                           [registro_mascota_id |-> mascota_id,
                            descripcion |-> e.descripcion_alergias,
                            estado_registro |-> "A"])
               ELSE descripcion_alergias)
         /\ condicion_salud' = Cerrar(confirmado, condicion_salud,
               IF ~sigue THEN condicion_salud ELSE
               condicion_salud \o
               [i \in DOMAIN ConNombre(condiciones_list) |->
                   LET cond == ConNombre(condiciones_list)[i] IN
                   [registro_mascota_id |-> mascota_id, nombre |-> NombreDe(cond),
                    fecha |-> FechaDe(ExtraDe(cond)),
                    estado_registro |-> "A"]])
         /\ preferencia_alimentaria' = Cerrar(confirmado, preferencia_alimentaria,
               IF ~sigue THEN preferencia_alimentaria ELSE
               preferencia_alimentaria \o
               [i \in DOMAIN ConNombre(preferencias_list) |->
                   LET pref == ConNombre(preferencias_list)[i] IN
                   [registro_mascota_id |-> mascota_id, nombre |-> NombreDe(pref),
                    estado_registro |-> "A", descripcion |-> ExtraDe(pref)]])
         /\ respuesta' =
               IF sinEntero # {} THEN r(500, "ValueError")
               ELSE IF falla_commit THEN r(500, "DBAPIError")
               ELSE [r(200, "Pedido especializado creado exitosamente.")
                        EXCEPT !.pedido_id = pedido_id,
                               !.resumen = <<Len(alergias_list), Len(condiciones_list),
                                             Len(preferencias_list)>>]
         /\ UNCHANGED <<detalle_pedido, control_entrega, registro_mascota, reloj>>

\* ------------------------------------------------------------- pet deletion
\* The rows of the tables whose registro_mascota_id is a NOT NULL foreign
\* key to registro_mascota.
HijasDeMascota(mascota_id) ==
    {i \in DOMAIN receta_medica : receta_medica[i].registro_mascota_id = mascota_id}
       \cup {i \in DOMAIN alergia_mascota :
                alergia_mascota[i].registro_mascota_id = mascota_id}
       \cup {i \in DOMAIN descripcion_alergias :
                descripcion_alergias[i].registro_mascota_id = mascota_id}
       \cup {i \in DOMAIN condicion_salud :
                condicion_salud[i].registro_mascota_id = mascota_id}
       \cup {i \in DOMAIN preferencia_alimentaria :
                preferencia_alimentaria[i].registro_mascota_id = mascota_id}

\* Faulty count: no specialized order is seen.
PedidosActivos_Ninguno(mascota_id) == Cardinality({})

\* The count of lines 279-286: the specialized orders of the pet whose
\* estado_registro is "A".
PedidosActivos(mascota_id) ==
    Cardinality({pe \in pedido_especializado :
                    /\ pe.registro_mascota_id = mascota_id
                    /\ pe.estado_registro = "A"})

\* DELETE /cliente/mascotas/{mascota_id}: a pet with active specialized
\* orders is marked inactive; any other pet is deleted, its specialized
\* orders (nullable foreign key, no cascade) losing their reference, and the
\* delete failing at the commit when a row with a NOT NULL reference is left.
eliminar_mascota(mascota_id) ==
    LET r(codigo, detalle) == Resp("eliminar_mascota", codigo, detalle, None)
    IN
    IF mascota_id \notin DOMAIN registro_mascota
    THEN /\ respuesta' = r(404, "Mascota no encontrada.")
         /\ SinEscritura
    ELSE LET pedidos_activos == PedidosActivos(mascota_id)
         IN
         IF pedidos_activos > 0
         THEN /\ registro_mascota' =
                    [registro_mascota EXCEPT ![mascota_id].estado_registro = "I"]
              /\ respuesta' = r(200, "Mascota marcada como inactiva por tener pedidos asociados.")
              /\ UNCHANGED <<pedido, control_entrega, tablasPedido, receta_medica,
                             alergia_mascota, descripcion_alergias, condicion_salud,
                             preferencia_alimentaria, reloj>>
         ELSE IF HijasDeMascota(mascota_id) # {}
         THEN /\ respuesta' = r(500, "IntegrityError")
              /\ SinEscritura
         ELSE /\ registro_mascota' =
                    [m \in DOMAIN registro_mascota \ {mascota_id} |-> registro_mascota[m]]
              /\ pedido_especializado' =
                    {IF pe.registro_mascota_id = mascota_id
                     THEN [pe EXCEPT !.registro_mascota_id = None] ELSE pe :
                        pe \in pedido_especializado}
              /\ respuesta' = r(200, "Mascota eliminada correctamente.")
              /\ UNCHANGED <<pedido, control_entrega, detalle_pedido, receta_medica,
                             alergia_mascota, descripcion_alergias, condicion_salud,
                             preferencia_alimentaria, reloj>>

\* ------------------------------------------------------- allergy registration
\* The attributes of class AlergiaMascota, the keywords
\* registrar_alergia_mascota passes to its constructor, and the columns of
\* alergia_mascota that are NOT NULL without a default.
AlergiaMascotaAtributos ==
    {"id", "registro_mascota_id", "severidad", "estado_registro",
     "alergia_especie_id", "alergia_especie", "registro_mascota"}
AlergiaMascotaArgumentos ==
    {"id", "registro_mascota_id", "alergia_especie_id", "severidad", "descripcion"}
AlergiaMascotaObligatorias == {"id", "registro_mascota_id", "severidad", "estado_registro"}

\* The lookup of lines 347-354: the pet already has the allergy.
AlergiaExistente(mascota_id, alergia_especie_id) ==
    \E i \in DOMAIN alergia_mascota :
        /\ alergia_mascota[i].registro_mascota_id = mascota_id
        /\ alergia_mascota[i].alergia_especie_id = alergia_especie_id

\* POST /cliente/mascotas/{mascota_id}/alergias
registrar_alergia_mascota(mascota_id, alergia_especie_id) ==
    LET r(codigo, detalle) == Resp("registrar_alergia_mascota", codigo, detalle, None)
    IN
    IF ~(mascota_id \in DOMAIN registro_mascota
         /\ registro_mascota[mascota_id].estado_registro = "A")
    THEN /\ respuesta' = r(404, "Mascota no encontrada o inactiva.")
         /\ SinEscritura
    ELSE IF alergia_especie_id \notin alergia_especie
    THEN /\ respuesta' = r(404, "Alergia no encontrada en catalogo de especies.")
         /\ SinEscritura
    ELSE IF AlergiaExistente(mascota_id, alergia_especie_id)
    THEN /\ respuesta' = r(400, "La mascota ya tiene registrada esta alergia.")
         /\ SinEscritura
    ELSE IF ~ConstructorAcepta(AlergiaMascotaArgumentos, AlergiaMascotaAtributos)
    THEN /\ respuesta' = r(500, "TypeError")
         /\ SinEscritura
    ELSE IF ~(AlergiaMascotaObligatorias \subseteq AlergiaMascotaArgumentos)
    THEN /\ respuesta' = r(500, "IntegrityError")
         /\ SinEscritura
    ELSE /\ alergia_mascota' =
               Append(alergia_mascota,
                      [registro_mascota_id |-> mascota_id,
                       alergia_especie_id |-> alergia_especie_id,
                       severidad |-> "moderada", estado_registro |-> "A"])
         /\ respuesta' = r(200, "Alergia registrada exitosamente.")
         /\ UNCHANGED <<pedido, control_entrega, tablasPedido, registro_mascota,
                        receta_medica, descripcion_alergias, condicion_salud,
                        preferencia_alimentaria, reloj>>

\* --------------------------------------------------------------- sessions
\* A request that overlaps another one runs in a session of its own
\* (get_db): it reads, and later commits.  A session record holds the
\* request, what the session read, and the status code it answered.
Sesiones == {1, 2}

SesionLibre ==
    [fase |-> "libre",
     peticion |-> [op |-> "", nuevo_estado |-> "", repartidor_id |-> None],
     leido |-> [estado |-> "", controles |-> {}],
     codigo |-> 0]

\* --------------------------------------------------------------- requests
\* The form of a specialized order with every optional field absent.
FormularioMinimo ==
    [registro_mascota_id |-> 1, frecuencia_cantidad |-> "2 veces/semana",
     objetivo_dieta |-> "control de peso", consulta_nutricionista |-> FALSE,
     alergias_ids |-> <<"None">>, descripcion_alergias |-> "",
     condiciones_salud |-> <<"None">>, preferencias_alimentarias |-> <<"None">>,
     receta_medica |-> FALSE, archivo_adicional |-> FALSE]

\* The requests of the lifecycle specification: the creation requests are
\* few, the lifecycle requests exhaustive.
FormulariosCiclo ==
    {[FormularioMinimo EXCEPT !.alergias_ids = <<"json", <<"list", << <<"int", 1>> >> >> >>],
     [FormularioMinimo EXCEPT !.condiciones_salud = <<"malformado">>],
     [FormularioMinimo EXCEPT !.objetivo_dieta = ""],
     [FormularioMinimo EXCEPT !.registro_mascota_id = 2]}

DatosCiclo ==
    {[direccion_id |-> 1, platos |-> << [plato_id |-> 1, cantidad |-> 2] >>, total |-> 20],
     [direccion_id |-> 1, platos |-> << >>, total |-> 20]}

ClientesCiclo == {1, 3}

Init ==
    /\ pedido = << >>
    /\ detalle_pedido = << >>
    /\ pedido_especializado = {}
    /\ control_entrega = {}
    /\ registro_mascota =
          (1 :> [cliente_id |-> 1, estado_registro |-> "A"]) @@
          (2 :> [cliente_id |-> 2, estado_registro |-> "A"])
    /\ receta_medica = << >>
    /\ alergia_mascota = << >>
    /\ descripcion_alergias = << >>
    /\ condicion_salud = << >>
    /\ preferencia_alimentaria = << >>
    /\ reloj = 0
    /\ respuesta = Resp("", 0, "", None)
    /\ sesiones = [s \in Sesiones |-> SesionLibre]

Next ==
    \/ \E c \in ClientesCiclo, d \in DatosCiclo : crear_pedido(c, d)
          /\ UNCHANGED sesiones
    \/ \E c \in ClientesCiclo, e \in FormulariosCiclo : crear_pedido_especializado(c, e)
          /\ UNCHANGED sesiones
    \/ \E p \in PedidoIds, e \in EstadosPedidos : actualizar_estado_pedido(p, e)
          /\ UNCHANGED sesiones
    \/ \E p \in PedidoIds, r \in RepartidorIds : asignar_pedido_a_repartidor(p, r)
          /\ UNCHANGED sesiones
    \/ \E p \in PedidoIds : marcar_pedido_completado(p)
          /\ UNCHANGED sesiones
    \/ \E p \in PedidoIds : marcar_pedido_recibido(p)
          /\ UNCHANGED sesiones
    \/ \E p \in PedidoIds : marcar_pedido_devuelto(p)
          /\ UNCHANGED sesiones

Spec == Init /\ [][Next]_vars



\* ------------------------------------------------- specialized-order requests
\* Values of the three list fields of the form.
JsonLista(entradas) == <<"json", <<"list", entradas>>>>

AlergiasCompositor ==
    {<<"None">>,
     JsonLista(<< <<"int", 1>>, <<"int", 1>> >>),
     JsonLista(<< <<"int", 1>>, <<"int", 2>> >>),
     JsonLista(<< <<"int", 1>>, <<"str", "x">> >>),
     JsonLista(<< <<"int", 3>> >>),
     <<"malformado">>}

CondicionesCompositor ==
    {<<"None">>,
     JsonLista(<< <<"obj", <<"str", "diabetes">>, <<"str", "2024-01-01">> >>,
                  <<"obj", <<"str", "">>, <<"null">> >> >>),
     <<"malformado">>}

PreferenciasCompositor ==
    {<<"None">>,
     JsonLista(<< <<"str", "pollo">>, <<"obj", <<"null">>, <<"null">> >> >>),
     <<"malformado">>}

\* The forms of the composition specification: every combination of the
\* list fields, with and without prescription, and the forms that fail the
\* first checks.
FormulariosCompositor ==
    {[FormularioMinimo EXCEPT !.alergias_ids = a, !.condiciones_salud = c,
                              !.preferencias_alimentarias = p, !.receta_medica = rm] :
        a \in AlergiasCompositor, c \in CondicionesCompositor,
        p \in PreferenciasCompositor, rm \in BOOLEAN}
        \cup
    {[FormularioMinimo EXCEPT !.objetivo_dieta = ""],
     [FormularioMinimo EXCEPT !.frecuencia_cantidad = ""],
     [FormularioMinimo EXCEPT !.registro_mascota_id = 2],
     [FormularioMinimo EXCEPT !.registro_mascota_id = 3],
     [FormularioMinimo EXCEPT !.descripcion_alergias = "polen"]}

ClientesCompositor == {1, 2, 3}

NextCompositor ==
    \E c \in ClientesCompositor, e \in FormulariosCompositor :
        crear_pedido_especializado(c, e) /\ UNCHANGED sesiones

SpecCompositor == Init /\ [][NextCompositor]_vars

\* ------------------------------------------------------ order-creation requests
\* Bodies of POST /cliente/pedido/{cliente_id}: an address that is absent,
\* the customer's, another customer's or of nobody; no entry, an entry of an
\* existing dish, of a dish that does not exist, and both; a total that is
\* absent, negative or positive.
PlatosPedido ==
    {<< >>,
     << [plato_id |-> 1, cantidad |-> 2] >>,
     << [plato_id |-> 7, cantidad |-> 1] >>,
     << [plato_id |-> 1, cantidad |-> 1], [plato_id |-> 7, cantidad |-> 1] >>}

DatosPedido ==
    [direccion_id : {None, 1, 2, 9}, platos : PlatosPedido, total : {-5, 0, 20}]

ClientesPedido == {1, 2, 3}

\* The two routes that create orders, from the empty store.
NextCreacion ==
    \/ \E c \in ClientesPedido, d \in DatosPedido : crear_pedido(c, d)
          /\ UNCHANGED sesiones
    \/ \E c \in ClientesCompositor, e \in FormulariosCompositor :
          crear_pedido_especializado(c, e) /\ UNCHANGED sesiones

SpecCreacion == Init /\ [][NextCreacion]_vars

\* ------------------------------------------------ lifecycle with pet deletion
\* The lifecycle requests on the orders of customer 1, whose pet (1) may be
\* deleted before or after it has orders; pet 3 does not exist and courier 3
\* does not exist.
MascotasBorrables == {1, 3}
RepartidoresPermanencia == {1, 3}

NextPermanencia ==
    \/ \E d \in DatosCiclo : crear_pedido(1, d) /\ UNCHANGED sesiones
    \/ crear_pedido_especializado(1, FormularioMinimo) /\ UNCHANGED sesiones
    \/ \E p \in PedidoIds, e \in Estados : actualizar_estado_pedido(p, e)
          /\ UNCHANGED sesiones
    \/ \E p \in PedidoIds, r \in RepartidoresPermanencia :
          asignar_pedido_a_repartidor(p, r) /\ UNCHANGED sesiones
    \/ \E p \in PedidoIds : marcar_pedido_completado(p) /\ UNCHANGED sesiones
    \/ \E p \in PedidoIds : marcar_pedido_recibido(p) /\ UNCHANGED sesiones
    \/ \E p \in PedidoIds : marcar_pedido_devuelto(p) /\ UNCHANGED sesiones
    \/ \E m \in MascotasBorrables : eliminar_mascota(m) /\ UNCHANGED sesiones

SpecPermanencia == Init /\ [][NextPermanencia]_vars

\* ------------------------------------------------ lifecycle of a normal order
\* A store that holds a normal order of customer 1 with two line items, as
\* the tables pedido and detalle_pedido keep them, and the lifecycle
\* requests on it.
InitConLineas ==
    /\ pedido = (1 :> [cliente_id |-> 1, direccion_id |-> 1, total |-> 30,
                       estado |-> "pendiente", incluye_plato |-> TRUE])
    /\ detalle_pedido =
          << [pedido_id |-> 1, plato_combinado_id |-> 1, cantidad |-> 1,
              subtotal |-> 10],
             [pedido_id |-> 1, plato_combinado_id |-> 1, cantidad |-> 2,
              subtotal |-> 20] >>
    /\ pedido_especializado = {}
    /\ control_entrega = {}
    /\ registro_mascota =
          (1 :> [cliente_id |-> 1, estado_registro |-> "A"]) @@
          (2 :> [cliente_id |-> 2, estado_registro |-> "A"])
    /\ receta_medica = << >>
    /\ alergia_mascota = << >>
    /\ descripcion_alergias = << >>
    /\ condicion_salud = << >>
    /\ preferencia_alimentaria = << >>
    /\ reloj = 0
    /\ respuesta = Resp("", 0, "", None)
    /\ sesiones = [s \in Sesiones |-> SesionLibre]

NextConLineas ==
    \/ \E p \in PedidoIds, e \in EstadosPedidos : actualizar_estado_pedido(p, e)
          /\ UNCHANGED sesiones
    \/ \E p \in PedidoIds, r \in RepartidorIds : asignar_pedido_a_repartidor(p, r)
          /\ UNCHANGED sesiones
    \/ \E p \in PedidoIds : marcar_pedido_completado(p)
          /\ UNCHANGED sesiones
    \/ \E p \in PedidoIds : marcar_pedido_recibido(p)
          /\ UNCHANGED sesiones
    \/ \E p \in PedidoIds : marcar_pedido_devuelto(p)
          /\ UNCHANGED sesiones

SpecConLineas == InitConLineas /\ [][NextConLineas]_vars

\* ------------------------------------------ allergies: composer and registration
\* Specialized-order creations and direct allergy registrations, for the
\* pets 1 and 2, a pet that does not exist, and the catalog entries 1 and 2
\* and one that does not exist.
MascotasAlergia == {1, 2, 3}
AlergiasRegistrables == {1, 2, 3}

NextAlergias ==
    \/ \E c \in ClientesCompositor, e \in FormulariosCompositor :
          crear_pedido_especializado(c, e) /\ UNCHANGED sesiones
    \/ \E m \in MascotasAlergia, a \in AlergiasRegistrables :
          registrar_alergia_mascota(m, a) /\ UNCHANGED sesiones

SpecAlergias == Init /\ [][NextAlergias]_vars

\* ------------------------------------------------------ overlapping requests
\* Two requests on one order, each in a session of its own.  The engine is
\* created without isolation_level and the queries take no lock
\* (no with_for_update, no version_id_col), so under MySQL's default a
\* session reads a snapshot, assigns attributes of the objects it loaded, and
\* at db.commit() sends an UPDATE of the columns whose value differs from the
\* one it loaded, or an INSERT, against the rows as they are by then.
PedidoEnDisputa == CHOOSE p \in PedidoIds : \A q \in PedidoIds : p <= q

\* What the queries of a handler see of the order: its estado and its
\* delivery-control rows.
BaseActual ==
    [estado |-> pedido[PedidoEnDisputa].estado,
     controles |-> ControlesDe(PedidoEnDisputa)]

\* The requests that overlap.
Peticiones ==
    [op : {"actualizar_estado_pedido"}, nuevo_estado : Estados, repartidor_id : {None}]
        \cup
    [op : {"asignar_pedido_a_repartidor"}, nuevo_estado : {""}, repartidor_id : repartidor]
        \cup
    [op : {"marcar_pedido_completado", "marcar_pedido_recibido", "marcar_pedido_devuelto"},
     nuevo_estado : {""}, repartidor_id : {None}]

\* The control row a handler loaded (.first() of the lookup).
ControlLeido(leido) == CHOOSE c \in leido.controles : TRUE

\* What a handler leaves in its session before db.commit(): the status code,
\* pedido.estado, what it did with the control row ("nada", "actualiza",
\* "crea") and the row's repartidor_id and confirmacion_entrega.
Escritura(codigo, estado, control, repartidor_id, confirmacion_entrega) ==
    [codigo |-> codigo, estado |-> estado, control |-> control,
     repartidor_id |-> repartidor_id,
     confirmacion_entrega |-> confirmacion_entrega]

SinEscrituraEnSesion(codigo, leido) == Escritura(codigo, leido.estado, "nada", None, 0)

\* Faulty handler: an accepted status change also takes the courier off the
\* delivery-control row it finds.
actualizar_estado_pedido_en_sesion_LiberaRepartidor(leido, nuevo_estado) ==
    IF TransicionRechazada(leido.estado, nuevo_estado)
    THEN SinEscrituraEnSesion(400, leido)
    ELSE Escritura(200, nuevo_estado,
                   IF leido.controles # {} THEN "actualiza" ELSE "nada",
                   None, 0)

\* admin/pedidos.py lines 182-203 on what the session read.
actualizar_estado_pedido_en_sesion(leido, nuevo_estado) ==
    IF TransicionRechazada(leido.estado, nuevo_estado)
    THEN SinEscrituraEnSesion(400, leido)
    ELSE Escritura(200, nuevo_estado, "nada", None, 0)

\* admin/pedidos.py lines 228-251 on what the session read.
asignar_pedido_a_repartidor_en_sesion(leido, repartidor_id) ==
    IF ~RepartidorEncontrado(repartidor_id)
    THEN SinEscrituraEnSesion(404, leido)
    ELSE Escritura(200, EstadoTrasAsignar(leido.estado),
                   IF leido.controles # {} THEN "actualiza" ELSE "crea",
                   repartidor_id, ConfirmacionAlAsignar)

\* repartidor.py lines 168-178 on what the session read.
marcar_pedido_completado_en_sesion(leido) ==
    IF leido.controles = {}
    THEN SinEscrituraEnSesion(404, leido)
    ELSE IF YaEntregado(leido.estado, ControlLeido(leido).confirmacion_entrega)
    THEN SinEscrituraEnSesion(200, leido)
    ELSE Escritura(200, "entregado", "actualiza", ControlLeido(leido).repartidor_id, 1)

\* cliente/pedido.py lines 187-197 on what the session read.
marcar_pedido_recibido_en_sesion(leido) ==
    IF leido.controles = {}
    THEN SinEscrituraEnSesion(404, leido)
    ELSE IF YaRecibido(leido.estado, ControlLeido(leido).confirmacion_entrega)
    THEN SinEscrituraEnSesion(200, leido)
    ELSE Escritura(200, "entregado", "actualiza", ControlLeido(leido).repartidor_id, 1)

\* repartidor.py lines 200-210 on what the session read.
marcar_pedido_devuelto_en_sesion(leido) ==
    IF leido.controles = {}
    THEN SinEscrituraEnSesion(404, leido)
    ELSE IF leido.estado \in EstadosNoDevolvibles
    THEN SinEscrituraEnSesion(400, leido)
    ELSE Escritura(200, "devuelto", "actualiza", ControlLeido(leido).repartidor_id, 0)

EnSesion(peticion, leido) ==
    CASE peticion.op = "actualizar_estado_pedido" ->
            actualizar_estado_pedido_en_sesion(leido, peticion.nuevo_estado)
      [] peticion.op = "asignar_pedido_a_repartidor" ->
            asignar_pedido_a_repartidor_en_sesion(leido, peticion.repartidor_id)
      [] peticion.op = "marcar_pedido_completado" ->
            marcar_pedido_completado_en_sesion(leido)
      [] peticion.op = "marcar_pedido_recibido" ->
            marcar_pedido_recibido_en_sesion(leido)
      [] OTHER -> marcar_pedido_devuelto_en_sesion(leido)

\* db.commit(): the flush sends only the columns the session changed,
\* compared with what it loaded, and they land on the rows as they are now;
\* an INSERT the unique index refuses fails the whole transaction.
\* Gives [codigo, base]: the answer and the rows after the commit, for a
\* request on the order pedido_id when the ids of usadas are taken.
CommitDe(pedido_id, usadas, escritura, leido, actual, ahora) ==
    LET estado == IF escritura.estado # leido.estado
                  THEN escritura.estado ELSE actual.estado
    IN
    IF escritura.codigo # 200 \/ (escritura.control = "nada" /\ escritura.estado = leido.estado)
    THEN [codigo |-> escritura.codigo, base |-> actual]
    ELSE IF escritura.control = "nada"
    THEN [codigo |-> 200, base |-> [actual EXCEPT !.estado = estado]]
    ELSE IF escritura.control = "actualiza"
    THEN LET c0 == ControlLeido(leido)
             fila == CHOOSE c \in actual.controles : c.id = c0.id
             nueva == [fila EXCEPT
                         !.repartidor_id =
                             IF escritura.repartidor_id # c0.repartidor_id
                             THEN escritura.repartidor_id ELSE @,
                         !.confirmacion_entrega =
                             IF escritura.confirmacion_entrega # c0.confirmacion_entrega
                             THEN escritura.confirmacion_entrega ELSE @,
                         !.fecha_entrega = ahora]
         IN  [codigo |-> 200,
              base |-> [estado |-> estado,
                        controles |-> (actual.controles \ {fila}) \cup {nueva}]]
    ELSE LET id == CHOOSE k \in ClaveDeFila(usadas) : TRUE
             nueva == [id |-> id, pedido_id |-> pedido_id,
                       fecha_entrega |-> ahora,
                       confirmacion_entrega |-> escritura.confirmacion_entrega,
                       repartidor_id |-> escritura.repartidor_id]
         IN  IF IndicePedidoIdUnico(actual.controles \cup {nueva})
             THEN [codigo |-> 200,
                   base |-> [estado |-> estado,
                             controles |-> actual.controles \cup {nueva}]]
             ELSE [codigo |-> 500, base |-> actual]

\* The commit of a request on the one order of the overlapping requests.
Commit(escritura, leido, actual, ahora) ==
    CommitDe(PedidoEnDisputa, {c.id : c \in actual.controles},
             escritura, leido, actual, ahora)

\* A request arrives: its session runs the handler's queries.
leer(s, peticion) ==
    /\ sesiones[s].fase = "libre"
    /\ sesiones' = [sesiones EXCEPT ![s] =
                       [fase |-> "leido", peticion |-> peticion,
                        leido |-> BaseActual, codigo |-> 0]]
    /\ UNCHANGED <<pedido, control_entrega, tablasPedido, tablasMascota, reloj,
                   respuesta>>

\* The handler runs from its first test to db.commit() and answers.
confirmar(s) ==
    /\ sesiones[s].fase = "leido"
    /\ reloj < MaxReloj
    /\ reloj' = reloj + 1
    /\ LET ses == sesiones[s]
           c == Commit(EnSesion(ses.peticion, ses.leido), ses.leido, BaseActual, reloj')
       IN  /\ pedido' = [pedido EXCEPT ![PedidoEnDisputa].estado = c.base.estado]
           /\ control_entrega' =
                 (control_entrega \ ControlesDe(PedidoEnDisputa)) \cup c.base.controles
           /\ sesiones' = [sesiones EXCEPT ![s].fase = "hecho", ![s].codigo = c.codigo]
           /\ respuesta' =
                 [Resp(ses.peticion.op, c.codigo, "", PedidoEnDisputa)
                    EXCEPT !.nuevo_estado = ses.peticion.nuevo_estado,
                           !.estado_anterior = ses.leido.estado,
                           !.repartidor_id = ses.peticion.repartidor_id]
    /\ UNCHANGED <<tablasPedido, tablasMascota>>

\* The states of one order and its delivery-control row from which the
\* requests overlap: each is a state the handlers, run one at a time, reach
\* from a newly created specialized order.
BasesDeInicio ==
    [estado : Estados, controles : {{}}, reloj : {0}]
        \cup
    {[estado |-> e, reloj |-> t,
      controles |-> {[id |-> 1, pedido_id |-> PedidoEnDisputa, fecha_entrega |-> t,
                      confirmacion_entrega |-> 0, repartidor_id |-> 1]}] :
        e \in {"asignado", "en_camino", "entregado", "devuelto", "cancelado"},
        t \in {1}}
        \cup
    {[estado |-> "entregado", reloj |-> 2,
      controles |-> {[id |-> 1, pedido_id |-> PedidoEnDisputa, fecha_entrega |-> 2,
                      confirmacion_entrega |-> 1, repartidor_id |-> 1]}]}

InitConcurrente ==
    \E b \in BasesDeInicio :
        /\ pedido = (PedidoEnDisputa :>
                        [cliente_id |-> 1, direccion_id |-> None, total |-> 0,
                         estado |-> b.estado, incluye_plato |-> FALSE])
        /\ control_entrega = b.controles
        /\ reloj = b.reloj
        /\ detalle_pedido = << >>
        /\ pedido_especializado =
              {[id |-> 1, pedido_id |-> PedidoEnDisputa,
                registro_mascota_id |-> FormularioMinimo.registro_mascota_id,
                frecuencia_cantidad |-> FormularioMinimo.frecuencia_cantidad,
                objetivo_dieta |-> FormularioMinimo.objetivo_dieta,
                consulta_nutricionista |-> 0, estado_registro |-> "A",
                archivo_adicional |-> FALSE]}
        /\ registro_mascota =
              (1 :> [cliente_id |-> 1, estado_registro |-> "A"]) @@
              (2 :> [cliente_id |-> 2, estado_registro |-> "A"])
        /\ receta_medica = << >>
        /\ alergia_mascota =
              << [registro_mascota_id |-> 1, alergia_especie_id |-> 1,
                  severidad |-> "moderada", estado_registro |-> "A"] >>
        /\ descripcion_alergias = << >>
        /\ condicion_salud = << >>
        /\ preferencia_alimentaria = << >>
        /\ respuesta = Resp("", 0, "", None)
        /\ sesiones = [s \in Sesiones |-> SesionLibre]

NextConcurrente ==
    \/ \E s \in Sesiones, peticion \in Peticiones : leer(s, peticion)
    \/ \E s \in Sesiones : confirmar(s)

SpecConcurrente == InitConcurrente /\ [][NextConcurrente]_vars

\* ------------------------------------------- overlapping requests, two orders
\* Two orders of customer 1, and the order each session's request is on.
DosPedidos == {1, 2}
PedidoDeSesion == (1 :> 1) @@ (2 :> 2)

\* What the queries of a handler see of the order p.
BaseDe(p) == [estado |-> pedido[p].estado, controles |-> ControlesDe(p)]

\* A request on the order of session s arrives: the handler's queries run.
leer_pedido(s, peticion) ==
    /\ sesiones[s].fase = "libre"
    /\ sesiones' = [sesiones EXCEPT ![s] =
                       [fase |-> "leido", peticion |-> peticion,
                        leido |-> BaseDe(PedidoDeSesion[s]), codigo |-> 0]]
    /\ UNCHANGED <<pedido, control_entrega, tablasPedido, tablasMascota, reloj,
                   respuesta>>

\* The handler runs from its first test to db.commit() and answers.
confirmar_pedido(s) ==
    /\ sesiones[s].fase = "leido"
    /\ reloj < MaxReloj
    /\ reloj' = reloj + 1
    /\ LET ses == sesiones[s]
           p == PedidoDeSesion[s]
           c == CommitDe(p, {fila.id : fila \in control_entrega},
                         EnSesion(ses.peticion, ses.leido), ses.leido,
                         BaseDe(p), reloj')
       IN  /\ pedido' = [pedido EXCEPT ![p].estado = c.base.estado]
           /\ control_entrega' = (control_entrega \ ControlesDe(p)) \cup c.base.controles
           /\ sesiones' = [sesiones EXCEPT ![s].fase = "hecho", ![s].codigo = c.codigo]
           /\ respuesta' =
                 [Resp(ses.peticion.op, c.codigo, "", p)
                    EXCEPT !.nuevo_estado = ses.peticion.nuevo_estado,
                           !.estado_anterior = ses.leido.estado,
                           !.repartidor_id = ses.peticion.repartidor_id]
    /\ UNCHANGED <<tablasPedido, tablasMascota>>

\* The states of an order and its delivery-control row from which the
\* requests start, the row's id being the order's.
BasesDePedido(p) ==
    {[estado |-> "pendiente", controles |-> {}],
     [estado |-> "asignado",
      controles |-> {[id |-> p, pedido_id |-> p, fecha_entrega |-> 0,
                      confirmacion_entrega |-> 0, repartidor_id |-> 1]}],
     [estado |-> "en_camino",
      controles |-> {[id |-> p, pedido_id |-> p, fecha_entrega |-> 0,
                      confirmacion_entrega |-> 0, repartidor_id |-> 2]}]}

InitDosPedidos ==
    \E a \in BasesDePedido(1), b \in BasesDePedido(2) :
        /\ pedido = [p \in DosPedidos |->
                        [cliente_id |-> 1, direccion_id |-> None, total |-> 0,
                         estado |-> IF p = 1 THEN a.estado ELSE b.estado,
                         incluye_plato |-> FALSE]]
        /\ control_entrega = a.controles \cup b.controles
        /\ reloj = 0
        /\ detalle_pedido = << >>
        /\ pedido_especializado =
              {[id |-> p, pedido_id |-> p,
                registro_mascota_id |-> FormularioMinimo.registro_mascota_id,
                frecuencia_cantidad |-> FormularioMinimo.frecuencia_cantidad,
                objetivo_dieta |-> FormularioMinimo.objetivo_dieta,
                consulta_nutricionista |-> 0, estado_registro |-> "A",
                archivo_adicional |-> FALSE] : p \in DosPedidos}
        /\ registro_mascota =
              (1 :> [cliente_id |-> 1, estado_registro |-> "A"]) @@
              (2 :> [cliente_id |-> 2, estado_registro |-> "A"])
        /\ receta_medica = << >>
        /\ alergia_mascota = << >>
        /\ descripcion_alergias = << >>
        /\ condicion_salud = << >>
        /\ preferencia_alimentaria = << >>
        /\ respuesta = Resp("", 0, "", None)
        /\ sesiones = [s \in Sesiones |-> SesionLibre]

NextDosPedidos ==
    \/ \E s \in Sesiones, peticion \in Peticiones : leer_pedido(s, peticion)
    \/ \E s \in Sesiones : confirmar_pedido(s)

SpecDosPedidos == InitDosPedidos /\ [][NextDosPedidos]_vars

\* ================================================================= claims
\* The enumeration and the transition table as the specification states them.
SieteEstados ==
    {"pendiente", "en_preparacion", "asignado", "en_camino",
     "entregado", "devuelto", "cancelado"}

TablaDeTransiciones ==
    {<<"pendiente", "en_preparacion">>, <<"pendiente", "cancelado">>,
     <<"en_preparacion", "asignado">>, <<"en_preparacion", "cancelado">>,
     <<"asignado", "en_camino">>, <<"asignado", "cancelado">>,
     <<"en_camino", "entregado">>, <<"en_camino", "devuelto">>,
     <<"devuelto", "asignado">>, <<"devuelto", "cancelado">>}

\* The last request was a status change of an existing order.
FueTransicion ==
    /\ respuesta.op = "actualizar_estado_pedido"
    /\ respuesta.pedido_id \in DOMAIN pedido

\* The step is an accepted assignment (the primed response tells).
AsignacionAceptada ==
    /\ respuesta'.op = "asignar_pedido_a_repartidor"
    /\ respuesta'.codigo = 200
    /\ respuesta'.pedido_id \in DOMAIN pedido

\* The delivery-control rows of the order of the step's request, after it.
ControlesDespues == {c \in control_entrega' : c.pedido_id = respuesta'.pedido_id}

\* C1: in every reachable state every order's status is one of the seven
\* values of the enumeration, and a status change that asks for a value
\* outside the enumeration is never accepted.
C1_EstadoEnEnumeracion ==
    /\ \A p \in DOMAIN pedido : pedido[p].estado \in SieteEstados
    /\ (FueTransicion /\ respuesta.nuevo_estado \notin SieteEstados)
          => respuesta.codigo = 400

C1_Witness ==
    /\ FueTransicion
    /\ respuesta.nuevo_estado = "desconocido"
    /\ respuesta.codigo = 400
    /\ pedido[respuesta.pedido_id].estado = "devuelto"

\* C2: a status change from s to t is accepted, and stores t, exactly when
\* (s, t) is in the transition table; every other pair is refused and the
\* status stays s.
C2_TransicionSegunTabla ==
    FueTransicion =>
        IF <<respuesta.estado_anterior, respuesta.nuevo_estado>> \in TablaDeTransiciones
        THEN /\ respuesta.codigo = 200
             /\ pedido[respuesta.pedido_id].estado = respuesta.nuevo_estado
        ELSE /\ respuesta.codigo = 400
             /\ pedido[respuesta.pedido_id].estado = respuesta.estado_anterior

C2_Witness ==
    /\ FueTransicion
    /\ respuesta.estado_anterior = "devuelto"
    /\ respuesta.nuevo_estado = "asignado"
    /\ respuesta.codigo = 200

\* C3: a status change asked of an order that is entregado or cancelado is
\* refused, whatever status is asked for, its own included, and the order
\* keeps its status.
C3_FinalesRechazan ==
    (FueTransicion /\ respuesta.estado_anterior \in {"entregado", "cancelado"})
        => /\ respuesta.codigo = 400
           /\ pedido[respuesta.pedido_id].estado = respuesta.estado_anterior

C3_Witness ==
    /\ FueTransicion
    /\ respuesta.estado_anterior = "entregado"
    /\ respuesta.nuevo_estado = "entregado"
    /\ respuesta.codigo = 400

\* C4: every step, of whatever operation, that changes the status of an order
\* from s to a different t follows an edge (s, t) of the transition table.
C4_TodoCambioSigueTabla ==
    [][\A p \in DOMAIN pedido :
          (p \in DOMAIN pedido' /\ pedido'[p].estado # pedido[p].estado)
             => <<pedido[p].estado, pedido'[p].estado>> \in TablaDeTransiciones]_vars

\* C5: once an order is cancelado it is cancelado in every later state.
C5_CanceladoEsFinal ==
    [][\A p \in DOMAIN pedido :
          pedido[p].estado = "cancelado"
             => (p \in DOMAIN pedido' /\ pedido'[p].estado = "cancelado")]_vars

\* C6: once an order is entregado it is entregado in every later state,
\* whatever operation runs.
C6_EntregadoEsFinal ==
    [][\A p \in DOMAIN pedido :
          pedido[p].estado = "entregado"
             => (p \in DOMAIN pedido' /\ pedido'[p].estado = "entregado")]_vars

C6_Witness ==
    /\ respuesta.op = "asignar_pedido_a_repartidor"
    /\ respuesta.codigo = 200
    /\ respuesta.pedido_id \in DOMAIN pedido
    /\ pedido[respuesta.pedido_id].estado = "entregado"

\* C7: every order has at most one delivery-control row after every step; an
\* assignment never fails on the store's uniqueness rule; an accepted first
\* assignment creates the order's one row, and an accepted later one keeps
\* that same row (same key) and adds none.
C7_UnControlPorPedido ==
    [][/\ \A p \in PedidoIds :
             Cardinality({c \in control_entrega' : c.pedido_id = p}) <= 1
       /\ respuesta'.op = "asignar_pedido_a_repartidor"
             => respuesta'.codigo \in {200, 404}
       /\ AsignacionAceptada
             => IF ControlesDe(respuesta'.pedido_id) = {}
                THEN /\ Cardinality(ControlesDespues) = 1
                     /\ Cardinality(control_entrega')
                           = Cardinality(control_entrega) + 1
                ELSE /\ {c.id : c \in ControlesDespues}
                           = {c.id : c \in ControlesDe(respuesta'.pedido_id)}
                     /\ Cardinality(control_entrega')
                           = Cardinality(control_entrega)]_vars

C7_Witness ==
    /\ respuesta.op = "asignar_pedido_a_repartidor"
    /\ respuesta.detalle = "Pedido reasignado a un nuevo repartidor."
    /\ \E c \in ControlesDe(respuesta.pedido_id) : c.repartidor_id = 2
    /\ reloj >= 3

\* C8: a delivery-control row with confirmacion_entrega = 1 belongs to an
\* order whose status is entregado.
C8_ConfirmadoImplicaEntregado ==
    \A c \in control_entrega :
        c.confirmacion_entrega = 1
            => /\ c.pedido_id \in DOMAIN pedido
               /\ pedido[c.pedido_id].estado = "entregado"

C8_Witness ==
    /\ FueTransicion
    /\ respuesta.codigo = 400
    /\ \E c \in ControlesDe(respuesta.pedido_id) : c.confirmacion_entrega = 1

ConfirmacionDeEntrega ==
    respuesta'.op \in {"marcar_pedido_completado", "marcar_pedido_recibido"}

\* The step leaves every order and every delivery-control row as it was.
SinCambioDeEntrega == pedido' = pedido /\ control_entrega' = control_entrega

\* C11: a delivery confirmation (either endpoint) of an order that is
\* entregado with confirmacion_entrega = 1 answers without error and leaves
\* the order and its delivery-control row, timestamp included, unchanged.
C11_ConfirmarEsIdempotente ==
    [][(/\ ConfirmacionDeEntrega
        /\ respuesta'.pedido_id \in DOMAIN pedido
        /\ pedido[respuesta'.pedido_id].estado = "entregado"
        /\ \E c \in ControlesDe(respuesta'.pedido_id) : c.confirmacion_entrega = 1)
          => /\ respuesta'.codigo = 200
             /\ SinCambioDeEntrega
             /\ reloj' = reloj]_vars

C11_Witness ==
    /\ respuesta.op = "marcar_pedido_completado"
    /\ respuesta.detalle = "El pedido ya fue marcado como entregado anteriormente."
    /\ pedido[respuesta.pedido_id].estado = "entregado"
    /\ \E c \in ControlesDe(respuesta.pedido_id) : c.confirmacion_entrega = 1

\* C12, as stated: marking as returned an order that is entregado or
\* cancelado is refused as an invalid transition (400) and changes nothing.
C12_DevueltoRechazaFinales ==
    [][(/\ respuesta'.op = "marcar_pedido_devuelto"
        /\ respuesta'.pedido_id \in DOMAIN pedido
        /\ pedido[respuesta'.pedido_id].estado \in {"entregado", "cancelado"})
          => /\ respuesta'.codigo = 400
             /\ SinCambioDeEntrega]_vars

\* C12, amended: such a call changes nothing and is refused, as an invalid
\* transition (400) when the order has a delivery-control row and as not
\* found (404) when it has none.
C12_DevueltoRechazaFinalesConControl ==
    [][(/\ respuesta'.op = "marcar_pedido_devuelto"
        /\ respuesta'.pedido_id \in DOMAIN pedido
        /\ pedido[respuesta'.pedido_id].estado \in {"entregado", "cancelado"})
          => /\ respuesta'.codigo =
                   IF ControlesDe(respuesta'.pedido_id) # {} THEN 400 ELSE 404
             /\ SinCambioDeEntrega]_vars

C12_Witness ==
    /\ respuesta.op = "marcar_pedido_devuelto"
    /\ respuesta.codigo = 400
    /\ pedido[respuesta.pedido_id].estado = "cancelado"
    /\ \E c \in ControlesDe(respuesta.pedido_id) : c.repartidor_id = 2

\* C13: an assignment that names a missing order or a missing courier, and a
\* confirmation or a return of an order without delivery-control row, answer
\* 404 and leave every order and every delivery-control row unchanged.
C13_NoEncontradoAntesDeEscribir ==
    [][(\/ /\ respuesta'.op = "asignar_pedido_a_repartidor"
           /\ \/ respuesta'.pedido_id \notin DOMAIN pedido
              \/ respuesta'.repartidor_id \notin repartidor
        \/ /\ \/ ConfirmacionDeEntrega
              \/ respuesta'.op = "marcar_pedido_devuelto"
           /\ ControlesDe(respuesta'.pedido_id) = {})
          => /\ respuesta'.codigo = 404
             /\ SinCambioDeEntrega]_vars

C13_Witness ==
    /\ respuesta.op = "asignar_pedido_a_repartidor"
    /\ respuesta.detalle = "Repartidor no encontrado."
    /\ respuesta.pedido_id \in DOMAIN pedido
    /\ pedido[respuesta.pedido_id].estado = "pendiente"
    /\ control_entrega = {}

\* The order and its delivery-control row without the timestamp, which
\* depends on when a request ran.
SinFecha(base) ==
    [estado |-> base.estado,
     controles |-> {[id |-> c.id, repartidor_id |-> c.repartidor_id,
                     confirmacion_entrega |-> c.confirmacion_entrega] :
                        c \in base.controles}]

\* The rows after the request primera and then the request segunda, each run
\* from its queries to its commit before the other starts, from the rows base.
EnSerie(primera, segunda, base) ==
    LET trasPrimera == Commit(EnSesion(primera, base), base, base, 0).base
    IN  Commit(EnSesion(segunda, trasPrimera), trasPrimera, trasPrimera, 0).base

\* Both requests have answered.
AmbasHechas == \A s \in Sesiones : sesiones[s].fase = "hecho"

\* C14: when two requests on one order have both answered, the order's
\* status and delivery-control row are those of running the two requests one
\* after the other in some order, or one of the requests failed.
C14_SolapadasComoEnSerie ==
    (AmbasHechas /\ sesiones[1].leido = sesiones[2].leido)
        => \/ SinFecha(BaseActual) \in
                 {SinFecha(EnSerie(sesiones[1].peticion, sesiones[2].peticion,
                                   sesiones[1].leido)),
                  SinFecha(EnSerie(sesiones[2].peticion, sesiones[1].peticion,
                                   sesiones[1].leido))}
           \/ \E s \in Sesiones : sesiones[s].codigo = 500

\* C15: no state holds two delivery-control rows of one order, also when two
\* first assignments of the order overlap and both find no row.
C15_UnControlTambienSolapadas ==
    \A p \in PedidoIds : Cardinality(ControlesDe(p)) <= 1

C15_Witness ==
    /\ AmbasHechas
    /\ \A s \in Sesiones :
          /\ sesiones[s].peticion.op = "asignar_pedido_a_repartidor"
          /\ sesiones[s].leido.controles = {}
    /\ sesiones[1].codigo = 200
    /\ sesiones[2].codigo = 500
    /\ Cardinality(ControlesDe(PedidoEnDisputa)) = 1

\* The step is a request to create a specialized order.
CreacionEspecializada == respuesta'.op = "crear_pedido_especializado"

\* The step leaves the order tables and the pet's sub-record tables as they
\* were.
NadaPersistido ==
    /\ pedido' = pedido
    /\ pedido_especializado' = pedido_especializado
    /\ receta_medica' = receta_medica
    /\ alergia_mascota' = alergia_mascota
    /\ descripcion_alergias' = descripcion_alergias
    /\ condicion_salud' = condicion_salud
    /\ preferencia_alimentaria' = preferencia_alimentaria

\* The orders and the specialized extensions the step added.
PedidosNuevos == DOMAIN pedido' \ DOMAIN pedido

ExtensionesNuevas == pedido_especializado' \ pedido_especializado

\* The number of rows the step appended to a table kept in insertion order.
Sumadas(despues, antes) == Len(despues) - Len(antes)

\* C16: a request to create a specialized order that fails, at whatever
\* step, leaves no order, extension or sub-record; one that succeeds leaves
\* the order and its extension together, and drops no earlier row.  In every
\* state the specialized orders and the extensions match one to one.
C16_ComposicionTodoONada ==
    [][/\ CreacionEspecializada =>
             IF respuesta'.codigo = 200
             THEN /\ Cardinality(PedidosNuevos) = 1
                  /\ Cardinality(ExtensionesNuevas) = 1
                  /\ \A pe \in ExtensionesNuevas : pe.pedido_id \in PedidosNuevos
                  /\ Sumadas(alergia_mascota', alergia_mascota) >= 0
                  /\ Sumadas(condicion_salud', condicion_salud) >= 0
                  /\ Sumadas(preferencia_alimentaria', preferencia_alimentaria) >= 0
             ELSE NadaPersistido
       /\ \A p \in DOMAIN pedido' :
             ~pedido'[p].incluye_plato =>
                 Cardinality({pe \in pedido_especializado' : pe.pedido_id = p}) = 1
       /\ \A pe \in pedido_especializado' : pe.pedido_id \in DOMAIN pedido']_vars

C16_Witness ==
    /\ respuesta.op = "crear_pedido_especializado"
    /\ respuesta.detalle = "ValueError"
    /\ pedido = << >>
    /\ pedido_especializado = {}
    /\ alergia_mascota = << >>

\* A form whose allergy list names the same catalog entry twice.
AlergiaRepetida(e) ==
    e.alergias_ids = JsonLista(<< <<"int", 1>>, <<"int", 1>> >>)

\* C17: a successful creation whose allergy list names one catalog entry
\* twice stores one allergy row for the pet and the entry, and its summary
\* counts one registered allergy.
C17_AlergiaRepetidaUnaVez ==
    [][\A c \in ClientesCompositor, e \in FormulariosCompositor :
          (/\ AlergiaRepetida(e)
           /\ crear_pedido_especializado(c, e)
           /\ respuesta'.codigo = 200)
             => /\ Sumadas(alergia_mascota', alergia_mascota) = 1
                /\ respuesta'.resumen[1] = 1]_vars

\* C18: the three counts of the summary of a successful creation are the
\* numbers of allergy, condition and preference rows the call stored.
C18_ResumenCuentaLoPersistido ==
    [][(CreacionEspecializada /\ respuesta'.codigo = 200)
          => respuesta'.resumen =
                <<Sumadas(alergia_mascota', alergia_mascota),
                  Sumadas(condicion_salud', condicion_salud),
                  Sumadas(preferencia_alimentaria', preferencia_alimentaria)>>]_vars

\* The request names a missing client, a pet that is missing or another
\* client's, an empty mandatory field or a malformed list field.
Rechazable(c, e) ==
    \/ c \notin cliente
    \/ e.registro_mascota_id \notin DOMAIN registro_mascota
    \/ registro_mascota[e.registro_mascota_id].cliente_id # c
    \/ e.frecuencia_cantidad = ""
    \/ e.objetivo_dieta = ""
    \/ \E campo \in {e.alergias_ids, e.condiciones_salud, e.preferencias_alimentarias} :
          campo = <<"malformado">>

\* C19: such a request is refused (404 or 400) and stores nothing: a step
\* that is not a refusal leaving the tables as they were is the step of no
\* such request.
C19_RechazoNoPersiste ==
    [][\/ /\ respuesta'.codigo \in {400, 404}
          /\ NadaPersistido
       \/ \A c \in ClientesCompositor, e \in FormulariosCompositor :
             crear_pedido_especializado(c, e) => ~Rechazable(c, e)]_vars

C19_Witness ==
    /\ respuesta.op = "crear_pedido_especializado"
    /\ respuesta.codigo = 400
    /\ respuesta.detalle = "Formato JSON invalido en uno de los campos de lista."
    /\ pedido = << >>
    /\ condicion_salud = << >>

\* C20: a successful creation adds one order (pendiente, total 0, without
\* dishes or address, of the client) and one extension for it and the pet;
\* a request with every optional field absent succeeds and stores no
\* allergy, description, condition, preference or prescription.
C20_PedidoYExtension ==
    [][/\ (CreacionEspecializada /\ respuesta'.codigo = 200) =>
             \A c \in ClientesCompositor, e \in FormulariosCompositor :
                crear_pedido_especializado(c, e) =>
                   /\ Cardinality(PedidosNuevos) = 1
                   /\ \A p \in PedidosNuevos :
                         /\ pedido'[p].estado = "pendiente"
                         /\ pedido'[p].total = 0
                         /\ pedido'[p].incluye_plato = FALSE
                         /\ pedido'[p].direccion_id = None
                         /\ pedido'[p].cliente_id = c
                         /\ respuesta'.pedido_id = p
                   /\ Cardinality(ExtensionesNuevas) = 1
                   /\ \A pe \in ExtensionesNuevas :
                         /\ pe.pedido_id \in PedidosNuevos
                         /\ pe.registro_mascota_id = e.registro_mascota_id
                   /\ \A p \in DOMAIN pedido : pedido'[p] = pedido[p]
       /\ \A c \in ClientesCompositor :
             (~Rechazable(c, FormularioMinimo)
                 /\ crear_pedido_especializado(c, FormularioMinimo))
                => /\ respuesta'.codigo = 200
                   /\ receta_medica' = receta_medica
                   /\ alergia_mascota' = alergia_mascota
                   /\ descripcion_alergias' = descripcion_alergias
                   /\ condicion_salud' = condicion_salud
                   /\ preferencia_alimentaria' = preferencia_alimentaria]_vars

C20_Witness ==
    /\ respuesta.op = "crear_pedido_especializado"
    /\ respuesta.codigo = 200
    /\ respuesta.resumen = <<0, 0, 0>>
    /\ DOMAIN pedido = {respuesta.pedido_id}
    /\ Cardinality(pedido_especializado) = 1
    /\ receta_medica = << >>
    /\ alergia_mascota = << >>
    /\ descripcion_alergias = << >>
    /\ condicion_salud = << >>
    /\ preferencia_alimentaria = << >>
\* ---------------------------------------------------------------- C21..C30
\* A request the checks of create_order turn away: unknown customer, no
\* address or an address that is not the customer's, no entry, total not
\* above 0.
PedidoRechazable(c, d) ==
    \/ c \notin cliente
    \/ d.direccion_id = None
    \/ d.direccion_id \notin DOMAIN direccion
    \/ direccion[d.direccion_id] # c
    \/ Len(d.platos) = 0
    \/ d.total <= 0

LineasDe(detalles, p) == SelectSeq(detalles, LAMBDA fila : fila.pedido_id = p)

\* C21: create_order fails and persists nothing when the customer does not
\* exist, the address is missing or not the customer's, the list of entries
\* is empty or the total is not above 0; every other request persists one
\* order, pendiente with incluye_plato set, and one line item per entry.
C21_CrearPedidoRechazaOPersiste ==
    [][respuesta'.op = "crear_pedido" =>
          \A c \in ClientesPedido, d \in DatosPedido :
             crear_pedido(c, d) =>
                IF PedidoRechazable(c, d)
                THEN /\ respuesta'.codigo \in {400, 404}
                     /\ UNCHANGED <<pedido, control_entrega, tablasPedido, tablasMascota>>
                ELSE /\ respuesta'.codigo = 200
                     /\ \E p \in DOMAIN pedido' \ DOMAIN pedido :
                          /\ DOMAIN pedido' = DOMAIN pedido \cup {p}
                          /\ pedido'[p].estado = "pendiente"
                          /\ pedido'[p].incluye_plato
                          /\ Len(LineasDe(detalle_pedido', p)) = Len(d.platos)
                          /\ Len(detalle_pedido') = Len(detalle_pedido) + Len(d.platos)]_vars

\* C22: in every state every order has total >= 0 and every order with
\* incluye_plato set has at least one line item; a create_order request that
\* fails (a line item that cannot be built among the causes) leaves no order
\* and no line item behind.
C22_PedidoConSusLineas ==
    /\ [](\A p \in DOMAIN pedido :
             /\ pedido[p].total >= 0
             /\ pedido[p].incluye_plato => Len(LineasDe(detalle_pedido, p)) >= 1)
    /\ [][(respuesta'.op = "crear_pedido" /\ respuesta'.codigo # 200)
             => UNCHANGED <<pedido, detalle_pedido>>]_vars

\* A request that passed every check of create_order and failed on a line
\* item has been answered, and the store holds no order and no line item.
C22_Witness ==
    /\ respuesta.op = "crear_pedido"
    /\ respuesta.codigo = 500
    /\ DOMAIN pedido = {}
    /\ Len(detalle_pedido) = 0

Nombrados(valores) == {valores[i] : i \in DOMAIN valores}

\* C23: a transition refused because the state asked for is not allowed from
\* the order's state changes nothing, the order's state included, and its
\* error names both the order's state and the state asked for.
C23_RechazoSinCambioYConEstados ==
    [][(/\ respuesta'.op = "actualizar_estado_pedido"
        /\ respuesta'.codigo = 400
        /\ respuesta'.pedido_id \in DOMAIN pedido
        /\ <<pedido[respuesta'.pedido_id].estado, respuesta'.nuevo_estado>>
               \notin TablaDeTransiciones)
          => /\ pedido'[respuesta'.pedido_id].estado = pedido[respuesta'.pedido_id].estado
             /\ UNCHANGED <<pedido, control_entrega, tablasPedido, tablasMascota>>
             /\ {pedido[respuesta'.pedido_id].estado, respuesta'.nuevo_estado}
                   \subseteq Nombrados(respuesta'.interpolados)]_vars

\* A transition from a state that differs from the one asked for was refused
\* while the order had a delivery-control record.
C23_Witness ==
    /\ respuesta.op = "actualizar_estado_pedido"
    /\ respuesta.codigo = 400
    /\ respuesta.pedido_id \in DOMAIN pedido
    /\ respuesta.nuevo_estado \in Estados
    /\ respuesta.nuevo_estado # pedido[respuesta.pedido_id].estado
    /\ ControlesDe(respuesta.pedido_id) # {}

\* The three list fields of the specialized-order form.
CamposDeLista == {"alergias_ids", "condiciones_salud", "preferencias_alimentarias"}

\* Of the list fields of form e, only campo holds text that is not JSON.
MalformadoSolo(e, campo) ==
    /\ e[campo] = <<"malformado">>
    /\ \A otro \in CamposDeLista \ {campo} : e[otro] # <<"malformado">>

\* The request of form e by customer c gets as far as parsing the lists.
LlegaAlParseo(c, e) ==
    /\ c \in cliente
    /\ e.registro_mascota_id \in DOMAIN registro_mascota
    /\ registro_mascota[e.registro_mascota_id].cliente_id = c
    /\ e.frecuencia_cantidad # ""
    /\ e.objetivo_dieta # ""

\* C24: a specialized-order request refused for text that is not JSON in one
\* list field gets an error that names that field, so that no error answers
\* both a request with the fault in one field and a request with the fault
\* in another.
C24_ErrorNombraElCampo ==
    [][(respuesta'.op = "crear_pedido_especializado" /\ respuesta'.codigo = 400) =>
          \A c \in ClientesCompositor, e \in FormulariosCompositor, f \in CamposDeLista :
             (crear_pedido_especializado(c, e) /\ LlegaAlParseo(c, e)
                 /\ MalformadoSolo(e, f))
             => /\ f \in Nombrados(respuesta'.interpolados)
                /\ \A e2 \in FormulariosCompositor, g \in CamposDeLista \ {f} :
                      ~(crear_pedido_especializado(c, e2) /\ LlegaAlParseo(c, e2)
                           /\ MalformadoSolo(e2, g))]_vars

\* The allergy field of form e is a JSON list with an entry int() refuses,
\* and no list field of e holds text that is not JSON.
AlergiaNoEntera(e) ==
    /\ \A f \in CamposDeLista : e[f] # <<"malformado">>
    /\ LET lista == parse_json_list(e.alergias_ids).lista
       IN \E i \in DOMAIN lista : ~PyInt(lista[i]).ok

\* C25: a specialized-order request whose allergy list is JSON but holds an
\* entry that is no integer identifier is refused as a validation failure
\* (a 4xx answer), and nothing is stored.
C25_AlergiaNoEnteraEsValidacion ==
    [][(respuesta'.op = "crear_pedido_especializado" /\ respuesta'.codigo # 200) =>
          \A c \in ClientesCompositor, e \in FormulariosCompositor :
             (crear_pedido_especializado(c, e) /\ LlegaAlParseo(c, e)
                 /\ AlergiaNoEntera(e))
             => /\ respuesta'.codigo \in {400, 422}
                /\ UNCHANGED <<pedido, control_entrega, tablasPedido, tablasMascota>>]_vars

\* C26: no request removes an order: an order of one state is an order of
\* the next, under the same id and of the same customer, whether the step
\* is a status change (to cancelado among them), an assignment, a
\* confirmation, a return or the deletion of the pet it was composed for.
C26_PedidoPermanece ==
    [][\A p \in DOMAIN pedido :
          /\ p \in DOMAIN pedido'
          /\ pedido'[p].cliente_id = pedido[p].cliente_id]_vars

\* An order was cancelled and the deletion of its pet was then requested.
C26_Witness ==
    /\ respuesta.op = "eliminar_mascota"
    /\ respuesta.codigo = 200
    /\ \E p \in DOMAIN pedido : pedido[p].estado = "cancelado"
    /\ \E m \in DOMAIN registro_mascota : registro_mascota[m].estado_registro = "I"

\* The session s answers in this step.
Responde(s) == sesiones[s].fase = "leido" /\ sesiones'[s].fase = "hecho"

\* C28: a status change, an assignment, a confirmation or a return on one
\* order, accepted or refused and however it overlaps a request on another
\* order, leaves the other order's status and delivery-control row (its
\* existence, courier and confirmation flag) as they were.
C28_PedidosIndependientes ==
    [][\A s \in Sesiones :
          Responde(s) =>
             \A q \in DosPedidos \ {PedidoDeSesion[s]} :
                /\ pedido'[q].estado = pedido[q].estado
                /\ {c \in control_entrega' : c.pedido_id = q}
                      = {c \in control_entrega : c.pedido_id = q}]_vars

\* A confirmation on order 1 and an assignment on order 2 overlapped, both
\* were accepted, and each order shows its own request's effect.
C28_Witness ==
    /\ AmbasHechas
    /\ sesiones[1].peticion.op = "marcar_pedido_completado"
    /\ sesiones[2].peticion.op = "asignar_pedido_a_repartidor"
    /\ sesiones[1].codigo = 200
    /\ sesiones[2].codigo = 200
    /\ sesiones[2].leido.controles = {}
    /\ pedido[1].estado = "entregado"
    /\ pedido[2].estado = "asignado"
    /\ \E c \in ControlesDe(1) : c.confirmacion_entrega = 1
    /\ \E c \in ControlesDe(2) : c.confirmacion_entrega = 0

\* C27: a status change, an assignment, a confirmation of delivery or a
\* return leaves every order's total and its line items (which they are,
\* their quantities and subtotals) as they were.
C27_LineasYTotalInmutables ==
    [][\A p \in DOMAIN pedido :
          /\ p \in DOMAIN pedido'
          /\ pedido'[p].total = pedido[p].total
          /\ LineasDe(detalle_pedido', p) = LineasDe(detalle_pedido, p)]_vars

\* The order with two line items has left pendiente: it was assigned,
\* sent out and confirmed as delivered.
C27_Witness ==
    /\ respuesta.op \in {"marcar_pedido_completado", "marcar_pedido_recibido"}
    /\ respuesta.codigo = 200
    /\ \E p \in DOMAIN pedido :
          /\ pedido[p].estado = "entregado"
          /\ pedido[p].total = 30
          /\ Len(LineasDe(detalle_pedido, p)) = 2
          /\ \E c \in control_entrega : c.pedido_id = p /\ c.confirmacion_entrega = 1

\* C29: also while a status change and a delivery confirmation on one order
\* overlap, no state holds a delivery-control row with
\* confirmacion_entrega = 1 whose order is not entregado.
C29_ConfirmadoEntregadoSolapadas ==
    \A p \in DOMAIN pedido :
        (\E c \in control_entrega : c.pedido_id = p /\ c.confirmacion_entrega = 1)
            => pedido[p].estado = "entregado"

C31_AsignadoTieneControl ==
    \A p \in DOMAIN pedido :
        pedido[p].estado = "asignado"
            => \E c \in control_entrega : c.pedido_id = p

\* C32: in every state, a delivery-control row of an order whose status is
\* entregado has confirmacion_entrega = 1.
C32_EntregadoEstaConfirmado ==
    \A c \in control_entrega :
        (c.pedido_id \in DOMAIN pedido /\ pedido[c.pedido_id].estado = "entregado")
            => c.confirmacion_entrega = 1

\* C33: every specialized order references a pet that exists, and the
\* deletion of a pet that an active specialized order references keeps the
\* pet's row, marked inactive.
C33_MascotaConPedidoNoSeBorra ==
    /\ [](\A pe \in pedido_especializado :
             pe.registro_mascota_id \in DOMAIN registro_mascota)
    /\ [][\A m \in DOMAIN registro_mascota :
             (\E pe \in pedido_especializado :
                 pe.registro_mascota_id = m /\ pe.estado_registro = "A")
             => /\ m \in DOMAIN registro_mascota'
                /\ (respuesta'.op = "eliminar_mascota" /\ respuesta'.codigo = 200)
                      => \/ registro_mascota'[m].estado_registro = "I"
                         \/ registro_mascota'[m] = registro_mascota[m]]_vars

\* The deletion of the pet of a specialized order was requested and answered
\* by marking the pet inactive; the order's extension still references it.
C33_Witness ==
    /\ respuesta.op = "eliminar_mascota"
    /\ respuesta.detalle = "Mascota marcada como inactiva por tener pedidos asociados."
    /\ \E pe \in pedido_especializado :
          /\ pe.registro_mascota_id \in DOMAIN registro_mascota
          /\ registro_mascota[pe.registro_mascota_id].estado_registro = "I"
          /\ pe.estado_registro = "A"

\* C34: in every state no pet has two allergy rows of one catalog entry.
C34_UnaAlergiaPorEntrada ==
    \A i, j \in DOMAIN alergia_mascota :
        (/\ alergia_mascota[i].registro_mascota_id = alergia_mascota[j].registro_mascota_id
         /\ alergia_mascota[i].alergia_especie_id = alergia_mascota[j].alergia_especie_id)
            => i = j

\* C35: in every state an order that has a delivery-control row is neither
\* pendiente nor en_preparacion; the assignment that creates the row leaves
\* the order asignado unless it was en_camino or entregado.
C35_ConControlNoEsTemprano ==
    /\ [](\A c \in control_entrega :
             /\ c.pedido_id \in DOMAIN pedido
             /\ pedido[c.pedido_id].estado \notin {"pendiente", "en_preparacion"})
    /\ [][\A p \in DOMAIN pedido :
             (/\ ~\E c \in control_entrega : c.pedido_id = p
              /\ \E c \in control_entrega' : c.pedido_id = p
              /\ pedido[p].estado \in {"pendiente", "en_preparacion", "devuelto",
                                       "cancelado"})
             => pedido'[p].estado = "asignado"]_vars

\* An order that was pendiente got its delivery-control row by an assignment
\* and was then sent out, returned and cancelled.
C35_Witness ==
    /\ respuesta.op = "actualizar_estado_pedido"
    /\ respuesta.codigo = 200
    /\ respuesta.estado_anterior = "devuelto"
    /\ respuesta.nuevo_estado = "cancelado"
    /\ \E c \in control_entrega :
          c.pedido_id = respuesta.pedido_id /\ c.confirmacion_entrega = 0


\* C36: early states are never re-entered when requests run one at a time.
\* No step gives an existing order the status pendiente unless it already
\* had it, and no step gives it en_preparacion unless it was pendiente (or
\* already en_preparacion); so an order that has left pendiente is never
\* pendiente again, and one that has left en_preparacion is never in
\* either early status again.
C36_EstadosTempranosNoVuelven ==
    [][\A p \in DOMAIN pedido :
             /\ pedido'[p].estado = "pendiente"
                   => pedido[p].estado = "pendiente"
             /\ pedido'[p].estado = "en_preparacion"
                   => pedido[p].estado \in {"pendiente", "en_preparacion"}]_vars

\* A request to put a cancelled order back to pendiente was refused, and a
\* request to put an assigned one back to en_preparacion likewise.
C36_Witness ==
    /\ FueTransicion
    /\ respuesta.codigo = 400
    /\ \/ /\ respuesta.nuevo_estado = "pendiente"
          /\ pedido[respuesta.pedido_id].estado = "cancelado"
       \/ /\ respuesta.nuevo_estado = "en_preparacion"
          /\ pedido[respuesta.pedido_id].estado = "asignado"


\* The outcome class of a confirmation: the order or its delivery-control
\* row was not found, the delivery was already confirmed, or it is confirmed
\* by this request.
MensajesYaConfirmado ==
    {"El pedido ya fue marcado como entregado anteriormente.",
     "El pedido ya fue confirmado como recibido."}

ClaseDeConfirmacion(resp) ==
    IF resp.codigo = 404 THEN "no_encontrado"
    ELSE IF resp.detalle \in MensajesYaConfirmado THEN "ya_confirmado"
    ELSE "confirmado"

\* The outcomes a confirmation of the order p may have from the current
\* state: an answer that writes nothing, or the order entregado and one of
\* its delivery-control rows confirmed at the next instant.
ResultadosDeConfirmar(p) ==
    {[clase |-> k, pedido |-> pedido, control_entrega |-> control_entrega] :
        k \in {"no_encontrado", "ya_confirmado"}}
    \cup
    {[clase |-> "confirmado",
      pedido |-> [pedido EXCEPT ![p].estado = "entregado"],
      control_entrega |->
          (control_entrega \ {c}) \cup
          {[c EXCEPT !.confirmacion_entrega = 1, !.fecha_entrega = reloj + 1]}] :
        c \in {d \in control_entrega : d.pedido_id = p /\ p \in DOMAIN pedido}}

\* The request ends with the outcome res.
TerminaCon(res) ==
    /\ ClaseDeConfirmacion(respuesta') = res.clase
    /\ pedido' = res.pedido
    /\ control_entrega' = res.control_entrega

\* C37: the two delivery-confirmation endpoints are equivalent. From every
\* reachable state and for every order id, marcar_pedido_completado can end
\* with an outcome (class not found / already confirmed / confirmed,
\* resulting orders, resulting delivery-control rows) exactly when
\* marcar_pedido_recibido can end with the same outcome; and every
\* confirmation that runs ends with one of the outcomes compared.
C37_ConfirmacionesEquivalentes ==
    /\ [](\A p \in PedidoIds : \A res \in ResultadosDeConfirmar(p) :
             ENABLED (marcar_pedido_completado(p) /\ TerminaCon(res))
             <=> ENABLED (marcar_pedido_recibido(p) /\ TerminaCon(res)))
    /\ [][ConfirmacionDeEntrega
             => \E res \in ResultadosDeConfirmar(respuesta'.pedido_id) :
                   TerminaCon(res)]_vars

\* The customer's endpoint confirmed a delivery: the order is entregado, its
\* row confirmed, and the answer is of the class 'confirmado'.
C37_Witness ==
    /\ respuesta.op = "marcar_pedido_recibido"
    /\ ClaseDeConfirmacion(respuesta) = "confirmado"
    /\ respuesta.pedido_id \in DOMAIN pedido
    /\ pedido[respuesta.pedido_id].estado = "entregado"
    /\ \E c \in control_entrega :
          c.pedido_id = respuesta.pedido_id /\ c.confirmacion_entrega = 1


\* The step is the answer of a session to a status change.
RespondeTransicion ==
    \E s \in Sesiones :
        /\ sesiones[s].fase = "leido"
        /\ sesiones'[s].fase = "hecho"
        /\ sesiones[s].peticion.op = "actualizar_estado_pedido"

\* C38: a status change never touches the delivery data. The step in which
\* actualizar_estado_pedido answers, accepted or refused, and whatever other
\* request overlaps it, leaves the set of delivery-control rows as it was:
\* no row is created or removed, and repartidor_id, confirmacion_entrega and
\* fecha_entrega of every row keep their values.
C38_TransicionNoTocaEntrega ==
    [][RespondeTransicion => control_entrega' = control_entrega]_vars

\* An assigned order was cancelled by a status change and its
\* delivery-control row is in place with its courier and the flag at 0.
C38_Witness ==
    /\ respuesta.op = "actualizar_estado_pedido"
    /\ respuesta.codigo = 200
    /\ respuesta.estado_anterior = "asignado"
    /\ respuesta.nuevo_estado = "cancelado"
    /\ pedido[respuesta.pedido_id].estado = "cancelado"
    /\ \E c \in control_entrega :
          /\ c.pedido_id = respuesta.pedido_id
          /\ c.repartidor_id \in repartidor
          /\ c.confirmacion_entrega = 0

========================================================================
